---- MODULE Spec2Model ----
(***************************************************************************)
(* vite-plugin-react-app-router: the directory-to-route-tree scanner       *)
(* (src/commons/routeParser.ts) and the import collector of the code       *)
(* generator (src/commons/codeGenerator.ts).                               *)
(*                                                                         *)
(* Strings are sequences of one-character strings, so that startsWith,     *)
(* endsWith, slice, replace and split are computed character by character. *)
(* A value that may be undefined is <<>> (undefined) or <<v>> (defined).   *)
(***************************************************************************)
EXTENDS Integers, Sequences, FiniteSets, TLC

VARIABLES
    segment,    \* the directory name handed to parseSegment
    segInfo,    \* <<>> or <<the record parseSegment returned>>
    names,      \* directory names the environment may create
    fileNames,  \* file names the environment may create
    shape,      \* [depth, dirs, files]: how far the environment grows the tree
    ls,         \* file system: directory path -> child directory names, in readdir order
    files,      \* file system: set of <<directory path, file name>>
    phase,      \* "edit" | "parsed" | "generated"
    parsed,     \* what parseAppRouter returned: [routes, tree, rootLayout, rootPage]
    options,    \* <<>> or <<the options generateRoutesCode was called with>>
    imports,    \* <<>> or <<what collectImports returned>>
    program,    \* <<>> or <<the module generateRoutesCode returned>>
    context,    \* the plugin object: [options, currentModule]
    serverCtx,  \* ctx of the serve handler: [config, options, cachedCode, appDir]
    buildCtx,   \* ctx of the build handler: [config, options, generatedCode]
    server,     \* the dev server: [moduleGraph, ws]
    returned    \* <<>> or <<what the last resolveId or load returned: [hook, id, value]>>

pluginVars == <<context, serverCtx, buildCtx, server, returned>>

vars == <<segment, segInfo, names, fileNames, shape, ls, files, phase, parsed, options, imports,
          program, context, serverCtx, buildCtx, server, returned>>

----------------------------------------------------------------------------
(* Bounds *)

MaxLen == 7          \* longest directory name given to parseSegment
MaxDepth == 3        \* deepest directory level below the app root
MaxDirs == 3         \* most directories below the app root
MaxPages == 3        \* most files when only page files are created
MaxSiblings == 4     \* most directories when only the sibling order is looked at
SortDepth == 1       \* deepest directory level when only the sibling order is looked at
CtxMaxDirs == 2      \* most directories when every convention file is created
CtxMaxFiles == 3     \* most files when every convention file is created
MaxRoutes == 2       \* most routes in a list given to generateRoutesCode
NameDepth == 2       \* deepest directory level when names of other characters are created
NameDirs == 2        \* most directories when names of other characters are created
PluginMaxFiles == 2  \* most files while the plugin runs
MaxMessages == 1     \* most messages sent to the client
ModDepth == 1        \* deepest directory level when modules are generated
ModMaxDirs == 2      \* most directories when modules are generated
ModMaxFiles == 3     \* most files when modules are generated
NestMaxFiles == 4     \* most files in a tree of nested directories
LazyMaxFiles == 3     \* most files in the app directory when the lazy option is given

----------------------------------------------------------------------------
(* String helpers: the String.prototype methods the code uses *)

None == <<>>
Some(v) == <<v>>

StartsWith(s, p) == Len(s) >= Len(p) /\ SubSeq(s, 1, Len(p)) = p

EndsWith(s, p) == Len(s) >= Len(p) /\ SubSeq(s, Len(s) - Len(p) + 1, Len(s)) = p

\* s.slice(from, -back): from is 0-based, back counts from the end
Slice(s, from, back) ==
    IF from >= Len(s) - back THEN <<>> ELSE SubSeq(s, from + 1, Len(s) - back)

----------------------------------------------------------------------------
(* parseSegment *)

parseSegmentOneFlag(seg) ==
    IF StartsWith(seg, <<"(">>) /\ EndsWith(seg, <<")">>)
    THEN [isDynamic |-> FALSE, isCatchAll |-> FALSE, isOptionalCatchAll |-> FALSE,
          isGroup |-> TRUE, paramName |-> None, routeSegment |-> <<>>]
    ELSE IF StartsWith(seg, <<"[", "[", ".", ".", ".">>) /\ EndsWith(seg, <<"]", "]">>)
    THEN [isDynamic |-> FALSE, isCatchAll |-> FALSE, isOptionalCatchAll |-> TRUE,
          isGroup |-> FALSE, paramName |-> Some(Slice(seg, 5, 2)),
          routeSegment |-> <<"*">>]
    ELSE IF StartsWith(seg, <<"[", ".", ".", ".">>) /\ EndsWith(seg, <<"]">>)
    THEN [isDynamic |-> FALSE, isCatchAll |-> TRUE, isOptionalCatchAll |-> FALSE,
          isGroup |-> FALSE, paramName |-> Some(Slice(seg, 4, 1)),
          routeSegment |-> <<"*">>]
    ELSE IF StartsWith(seg, <<"[">>) /\ EndsWith(seg, <<"]">>)
    THEN [isDynamic |-> TRUE, isCatchAll |-> FALSE, isOptionalCatchAll |-> FALSE,
          isGroup |-> FALSE, paramName |-> Some(Slice(seg, 1, 1)),
          routeSegment |-> <<":">> \o Slice(seg, 1, 1)]
    ELSE [isDynamic |-> FALSE, isCatchAll |-> FALSE, isOptionalCatchAll |-> FALSE,
          isGroup |-> FALSE, paramName |-> None, routeSegment |-> seg]

ParseSegmentDynamicFirst(seg) ==
    IF StartsWith(seg, <<"(">>) /\ EndsWith(seg, <<")">>)
    THEN [isDynamic |-> FALSE, isCatchAll |-> FALSE, isOptionalCatchAll |-> FALSE,
          isGroup |-> TRUE, paramName |-> None, routeSegment |-> <<>>]
    ELSE IF StartsWith(seg, <<"[">>) /\ EndsWith(seg, <<"]">>)
    THEN [isDynamic |-> TRUE, isCatchAll |-> FALSE, isOptionalCatchAll |-> FALSE,
          isGroup |-> FALSE, paramName |-> Some(Slice(seg, 1, 1)),
          routeSegment |-> <<":">> \o Slice(seg, 1, 1)]
    ELSE [isDynamic |-> FALSE, isCatchAll |-> FALSE, isOptionalCatchAll |-> FALSE,
          isGroup |-> FALSE, paramName |-> None, routeSegment |-> seg]

parseSegment(seg) ==
    IF StartsWith(seg, <<"(">>) /\ EndsWith(seg, <<")">>)
    THEN [isDynamic |-> FALSE, isCatchAll |-> FALSE, isOptionalCatchAll |-> FALSE,
          isGroup |-> TRUE, paramName |-> None, routeSegment |-> <<>>]
    ELSE IF StartsWith(seg, <<"[", "[", ".", ".", ".">>) /\ EndsWith(seg, <<"]", "]">>)
    THEN [isDynamic |-> TRUE, isCatchAll |-> FALSE, isOptionalCatchAll |-> TRUE,
          isGroup |-> FALSE, paramName |-> Some(Slice(seg, 5, 2)),
          routeSegment |-> <<"*">>]
    ELSE IF StartsWith(seg, <<"[", ".", ".", ".">>) /\ EndsWith(seg, <<"]">>)
    THEN [isDynamic |-> TRUE, isCatchAll |-> TRUE, isOptionalCatchAll |-> FALSE,
          isGroup |-> FALSE, paramName |-> Some(Slice(seg, 4, 1)),
          routeSegment |-> <<"*">>]
    ELSE IF StartsWith(seg, <<"[">>) /\ EndsWith(seg, <<"]">>)
    THEN [isDynamic |-> TRUE, isCatchAll |-> FALSE, isOptionalCatchAll |-> FALSE,
          isGroup |-> FALSE, paramName |-> Some(Slice(seg, 1, 1)),
          routeSegment |-> <<":">> \o Slice(seg, 1, 1)]
    ELSE [isDynamic |-> FALSE, isCatchAll |-> FALSE, isOptionalCatchAll |-> FALSE,
          isGroup |-> FALSE, paramName |-> None, routeSegment |-> seg]

----------------------------------------------------------------------------
(* The file system.  A directory is the sequence of the names from the app *)
(* root down to it; the app root is <<>>.  A file is <<directory, name>>.  *)

PAGE == <<"p", "a", "g", "e">>
LAYOUT == <<"l", "a", "y", "o", "u", "t">>
LOADING == <<"l", "o", "a", "d", "i", "n", "g">>
ERROR == <<"e", "r", "r", "o", "r">>
NOT_FOUND == <<"n", "o", "t", "-", "f", "o", "u", "n", "d">>

DEFAULT_EXTENSIONS ==
    << <<".", "t", "s", "x">>, <<".", "t", "s">>, <<".", "j", "s", "x">>, <<".", "j", "s">> >>

IGNORED_DIRECTORIES ==
    { <<"n", "o", "d", "e", "_", "m", "o", "d", "u", "l", "e", "s">>,
      <<".", "g", "i", "t">>,
      <<"c", "o", "m", "p", "o", "n", "e", "n", "t", "s">>,
      <<"l", "i", "b">>,
      <<"u", "t", "i", "l", "s">>,
      <<"h", "o", "o", "k", "s">>,
      <<"s", "t", "y", "l", "e", "s">> }

\* path.join(dirPath, name)
Join(dirPath, name) == Append(dirPath, name)

\* path.join(basePath, fileName + ext) of a file
FilePath(basePath, fileName) == <<basePath, fileName>>

\* fs.existsSync of a directory path and of a file path
existsSyncDir(dirPath) == dirPath \in DOMAIN ls

existsSync(filePath) == filePath \in files

RECURSIVE SetToSeq(_)
SetToSeq(S) ==
    IF S = {} THEN <<>>
    ELSE LET x == CHOOSE y \in S : TRUE IN <<x>> \o SetToSeq(S \ {x})

\* fs.readdirSync(dirPath, { withFileTypes: true }): the files, then the
\* directories in the order the file system lists them
readdirSync(dirPath) ==
    LET fileHere == {f \in files : f[1] = dirPath}
        fileSeq == SetToSeq({f[2] : f \in fileHere})
    IN [i \in 1..Len(fileSeq) |-> [name |-> fileSeq[i], isDirectory |-> FALSE]]
       \o [i \in 1..Len(ls[dirPath]) |-> [name |-> ls[dirPath][i], isDirectory |-> TRUE]]

findFileUnchecked(basePath, fileName, extensions) ==
    IF extensions = <<>> THEN None
    ELSE Some(FilePath(basePath, fileName \o Head(extensions)))

RECURSIVE findFileWithExtension(_, _, _)
findFileWithExtension(basePath, fileName, extensions) ==
    IF extensions = <<>> THEN None
    ELSE LET filePath == FilePath(basePath, fileName \o Head(extensions))
         IN IF existsSync(filePath) THEN Some(filePath)
            ELSE findFileWithExtension(basePath, fileName, Tail(extensions))

----------------------------------------------------------------------------
(* scanAppDirectory *)

\* a.localeCompare(b) in the root collation: punctuation sorts before
\* letters, and a proper prefix sorts before the longer string
CollationOrder ==
    <<"_", "-", ".", "(", ")", "[", "]", "a", "b", "c", "d", "e", "f", "g", "h", "i",
      "j", "k", "l", "m", "n", "o", "p", "q", "r", "s", "t", "u", "v", "w", "x", "y", "z">>

CollationRank(c) == CHOOSE i \in 1..Len(CollationOrder) : CollationOrder[i] = c

RECURSIVE localeCompare(_, _)
localeCompare(a, b) ==
    IF a = <<>> /\ b = <<>> THEN 0
    ELSE IF a = <<>> THEN -1
    ELSE IF b = <<>> THEN 1
    ELSE IF CollationRank(Head(a)) < CollationRank(Head(b)) THEN -1
    ELSE IF CollationRank(Head(a)) > CollationRank(Head(b)) THEN 1
    ELSE localeCompare(Tail(a), Tail(b))

compareFnNoDynamic(a, b) ==
    IF a.isCatchAll \/ a.isOptionalCatchAll THEN 1
    ELSE IF b.isCatchAll \/ b.isOptionalCatchAll THEN -1
    ELSE localeCompare(a.segment, b.segment)

\* the comparator handed to nodes.sort
compareFn(a, b) ==
    IF a.isCatchAll \/ a.isOptionalCatchAll THEN 1
    ELSE IF b.isCatchAll \/ b.isOptionalCatchAll THEN -1
    ELSE IF a.isDynamic /\ ~b.isDynamic THEN 1
    ELSE IF ~a.isDynamic /\ b.isDynamic THEN -1
    ELSE localeCompare(a.segment, b.segment)

(* Array.prototype.sort as the runtime performs it on an array shorter than *)
(* 64 elements: the first run is found (and reversed when it is strictly    *)
(* descending), then every further element is placed by binary insertion.  *)
(* Indices are 0-based as in the runtime; arr[i + 1] is element i.         *)

RECURSIVE RunEnd(_, _, _)
RunEnd(arr, idx, isDescending) ==
    IF idx >= Len(arr) THEN idx
    ELSE LET order == compareFn(arr[idx + 1], arr[idx])
         IN IF isDescending
            THEN (IF order >= 0 THEN idx ELSE RunEnd(arr, idx + 1, isDescending))
            ELSE (IF order < 0 THEN idx ELSE RunEnd(arr, idx + 1, isDescending))

Reverse(s) == [i \in 1..Len(s) |-> s[Len(s) + 1 - i]]

RECURSIVE BinarySearch(_, _, _, _)
BinarySearch(arr, pivot, left, right) ==
    IF left >= right THEN left
    ELSE LET mid == left + ((right - left) \div 2)
         IN IF compareFn(pivot, arr[mid + 1]) < 0
            THEN BinarySearch(arr, pivot, left, mid)
            ELSE BinarySearch(arr, pivot, mid + 1, right)

RECURSIVE BinaryInsertionSort(_, _)
BinaryInsertionSort(arr, start) ==
    IF start >= Len(arr) THEN arr
    ELSE LET pivot == arr[start + 1]
             left == BinarySearch(arr, pivot, 0, start)
             placed == SubSeq(arr, 1, left) \o <<pivot>> \o SubSeq(arr, left + 1, start)
                       \o SubSeq(arr, start + 2, Len(arr))
         IN BinaryInsertionSort(placed, start + 1)

ArraySort(arr) ==
    IF Len(arr) < 2 THEN arr
    ELSE LET isDescending == compareFn(arr[2], arr[1]) < 0
             runLength == RunEnd(arr, 2, isDescending)
             run == IF isDescending
                    THEN Reverse(SubSeq(arr, 1, runLength)) \o SubSeq(arr, runLength + 1, Len(arr))
                    ELSE arr
         IN BinaryInsertionSort(run, runLength)

RetainedAnyDirectory(entry) == entry.isDirectory

\* the three `continue` tests of the scan loop
Retained(entry) ==
    /\ entry.isDirectory
    /\ ~StartsWith(entry.name, <<"_">>)
    /\ entry.name \notin IGNORED_DIRECTORIES

RoutePathNoParent(segmentInfo, parentPath) ==
    IF segmentInfo.isGroup THEN parentPath
    ELSE IF segmentInfo.routeSegment # <<>>
         THEN <<"/">> \o segmentInfo.routeSegment ELSE <<>>

\* routePath of a directory below parentPath
RoutePath(segmentInfo, parentPath) ==
    IF segmentInfo.isGroup THEN parentPath
    ELSE parentPath \o (IF segmentInfo.routeSegment # <<>>
                        THEN <<"/">> \o segmentInfo.routeSegment ELSE <<>>)

OrElse(s, dflt) == IF s = <<>> THEN dflt ELSE s

RECURSIVE scanAppDirectory(_, _, _)
scanAppDirectory(dirPath, extensions, parentPath) ==
    IF ~existsSyncDir(dirPath) THEN <<>>
    ELSE LET entries == SelectSeq(readdirSync(dirPath), Retained)
             Node(entry) ==
                 LET segmentInfo == parseSegment(entry.name)
                     fullDirPath == Join(dirPath, entry.name)
                     routePath == RoutePath(segmentInfo, parentPath)
                 IN [segment |-> entry.name,
                     path |-> OrElse(routePath, <<"/">>),
                     isDynamic |-> segmentInfo.isDynamic,
                     isCatchAll |-> segmentInfo.isCatchAll,
                     isOptionalCatchAll |-> segmentInfo.isOptionalCatchAll,
                     isGroup |-> segmentInfo.isGroup,
                     paramName |-> segmentInfo.paramName,
                     pagePath |-> findFileWithExtension(fullDirPath, PAGE, extensions),
                     layoutPath |-> findFileWithExtension(fullDirPath, LAYOUT, extensions),
                     loadingPath |-> findFileWithExtension(fullDirPath, LOADING, extensions),
                     errorPath |-> findFileWithExtension(fullDirPath, ERROR, extensions),
                     notFoundPath |-> findFileWithExtension(fullDirPath, NOT_FOUND, extensions),
                     children |-> scanAppDirectory(fullDirPath, extensions, routePath)]
         IN ArraySort([i \in 1..Len(entries) |-> Node(entries[i])])

----------------------------------------------------------------------------
(* getRootPage, flattenRoutes, parseAppRouter *)

getRootPage(appDir, extensions) ==
    [pagePath |-> findFileWithExtension(appDir, PAGE, extensions),
     layoutPath |-> findFileWithExtension(appDir, LAYOUT, extensions),
     loadingPath |-> findFileWithExtension(appDir, LOADING, extensions),
     errorPath |-> findFileWithExtension(appDir, ERROR, extensions)]

CurrentLayoutsReplace(layouts, node) ==
    IF node.layoutPath # None THEN node.layoutPath ELSE layouts

\* currentLayouts of a node
CurrentLayouts(layouts, node) ==
    IF node.layoutPath # None THEN layouts \o node.layoutPath ELSE layouts

\* the ParsedRoute pushed for a node that has a page; the fields the code
\* leaves out are undefined
NodeRoute(node, currentLayouts) ==
    [pattern |-> OrElse(node.path, <<"/">>),
     pagePath |-> node.pagePath[1],
     layouts |-> currentLayouts,
     loadingPath |-> node.loadingPath,
     errorPath |-> node.errorPath,
     notFoundPath |-> None,
     layoutNotFoundMap |-> None]

RECURSIVE flattenRoutesChildrenFirst(_, _, _)
flattenRoutesChildrenFirst(nodes, parentLayouts, rootLayoutPath) ==
    IF nodes = <<>> THEN <<>>
    ELSE LET layouts == IF rootLayoutPath # None
                        THEN rootLayoutPath \o parentLayouts ELSE parentLayouts
             node == Head(nodes)
             currentLayouts == CurrentLayouts(layouts, node)
             own == IF node.pagePath # None
                    THEN <<NodeRoute(node, currentLayouts)>> ELSE <<>>
             below == IF Len(node.children) > 0
                      THEN flattenRoutesChildrenFirst(node.children, currentLayouts, None)
                      ELSE <<>>
         IN below \o own
            \o flattenRoutesChildrenFirst(Tail(nodes), parentLayouts, rootLayoutPath)

RECURSIVE flattenRoutes(_, _, _)
flattenRoutes(nodes, parentLayouts, rootLayoutPath) ==
    IF nodes = <<>> THEN <<>>
    ELSE LET layouts == IF rootLayoutPath # None
                        THEN rootLayoutPath \o parentLayouts ELSE parentLayouts
             node == Head(nodes)
             currentLayouts == CurrentLayouts(layouts, node)
             own == IF node.pagePath # None
                    THEN <<NodeRoute(node, currentLayouts)>> ELSE <<>>
             below == IF Len(node.children) > 0
                      THEN flattenRoutes(node.children, currentLayouts, None) ELSE <<>>
         IN own \o below \o flattenRoutes(Tail(nodes), parentLayouts, rootLayoutPath)

\* the root route parseAppRouter unshifts
RootRoute(root) ==
    [pattern |-> <<"/">>,
     pagePath |-> root.pagePath[1],
     layouts |-> IF root.layoutPath # None THEN root.layoutPath ELSE <<>>,
     loadingPath |-> root.loadingPath,
     errorPath |-> root.errorPath,
     notFoundPath |-> None,
     layoutNotFoundMap |-> None]

parseAppRouter(appDir, extensions) ==
    LET tree == scanAppDirectory(appDir, extensions, <<>>)
        root == getRootPage(appDir, extensions)
        routes == flattenRoutes(tree, <<>>, root.layoutPath)
    IN [routes |-> IF root.pagePath # None THEN <<RootRoute(root)>> \o routes ELSE routes,
        tree |-> tree,
        rootLayout |-> root.layoutPath,
        rootPage |-> root.pagePath]

----------------------------------------------------------------------------
(* pathToIdentifier *)

LowerCase == <<"a", "b", "c", "d", "e", "f", "g", "h", "i", "j", "k", "l", "m",
               "n", "o", "p", "q", "r", "s", "t", "u", "v", "w", "x", "y", "z">>
UpperCase == <<"A", "B", "C", "D", "E", "F", "G", "H", "I", "J", "K", "L", "M",
               "N", "O", "P", "Q", "R", "S", "T", "U", "V", "W", "X", "Y", "Z">>

toUpperCase(c) ==
    IF \E i \in 1..Len(LowerCase) : LowerCase[i] = c
    THEN UpperCase[CHOOSE i \in 1..Len(LowerCase) : LowerCase[i] = c]
    ELSE c

\* .replace(/^\//, '')
DropLeadingSlash(s) == IF s # <<>> /\ Head(s) = "/" THEN Tail(s) ELSE s

\* .replace(/[/:*[\]]/g, '_')
SpecialsToUnderscore(s) ==
    [i \in 1..Len(s) |-> IF s[i] \in {"/", ":", "*", "[", "]"} THEN "_" ELSE s[i]]

\* .replace(/_+/g, '_')
RECURSIVE CollapseUnderscores(_)
CollapseUnderscores(s) ==
    IF Len(s) < 2 THEN s
    ELSE IF s[1] = "_" /\ s[2] = "_" THEN CollapseUnderscores(Tail(s))
    ELSE <<Head(s)>> \o CollapseUnderscores(Tail(s))

\* .replace(/_$/, '')
DropTrailingUnderscore(s) ==
    IF s # <<>> /\ s[Len(s)] = "_" THEN SubSeq(s, 1, Len(s) - 1) ELSE s

\* .split('_'): the empty string splits into one empty part
RECURSIVE Split(_, _)
Split(s, cur) ==
    IF s = <<>> THEN <<cur>>
    ELSE IF Head(s) = "_" THEN <<cur>> \o Split(Tail(s), <<>>)
    ELSE Split(Tail(s), Append(cur, Head(s)))

\* part.charAt(0).toUpperCase() + part.slice(1)
Capitalize(part) ==
    IF part = <<>> THEN <<>> ELSE <<toUpperCase(Head(part))>> \o Tail(part)

RECURSIVE JoinParts(_)
JoinParts(parts) ==
    IF parts = <<>> THEN <<>> ELSE Head(parts) \o JoinParts(Tail(parts))

pathToIdentifier(routePath) ==
    IF routePath = <<"/">> \/ routePath = <<>> THEN <<"R", "o", "o", "t">>
    ELSE LET parts == Split(DropTrailingUnderscore(CollapseUnderscores(
                          SpecialsToUnderscore(DropLeadingSlash(routePath)))), <<>>)
         IN JoinParts([i \in 1..Len(parts) |-> Capitalize(parts[i])])

----------------------------------------------------------------------------
(* collectImports *)

Digits == <<"0", "1", "2", "3", "4", "5", "6", "7", "8", "9">>

\* `${index}`
RECURSIVE NumberToString(_)
NumberToString(n) ==
    IF n < 10 THEN <<Digits[n + 1]>>
    ELSE NumberToString(n \div 10) \o <<Digits[(n % 10) + 1]>>

generateImportName(prefix, filePath, index) ==
    LET safePath == pathToIdentifier(filePath)
    IN prefix \o (IF safePath # <<>> THEN safePath ELSE NumberToString(index))

\* .replace(/\.(tsx?|jsx?)$/, '') of a file name
StripExtension(fileName) ==
    LET n == Len(fileName)
        Ends(ext) == EndsWith(fileName, ext)
    IN IF Ends(<<".", "t", "s", "x">>) \/ Ends(<<".", "j", "s", "x">>) THEN SubSeq(fileName, 1, n - 4)
       ELSE IF Ends(<<".", "t", "s">>) \/ Ends(<<".", "j", "s">>) THEN SubSeq(fileName, 1, n - 3)
       ELSE fileName

\* the import specifier of a file below rootDir: its directory and its
\* file name without the extension
normalizeImportPath(filePath, rootDir) == <<"file", filePath[1], StripExtension(filePath[2])>>

\* createLazyImport / createImportDeclaration + createDefaultImport
ComponentImport(name, importPath, lazy) ==
    [kind |-> IF lazy THEN "lazy" ELSE "default", declares |-> <<name>>, source |-> importPath]

Prefix ==
    [page |-> <<"P", "a", "g", "e">>,
     layout |-> <<"L", "a", "y", "o", "u", "t">>,
     loading |-> <<"L", "o", "a", "d", "i", "n", "g">>,
     error |-> <<"E", "r", "r", "o", "r", "B", "o", "u", "n", "d", "a", "r", "y">>,
     notFound |-> <<"N", "o", "t", "F", "o", "u", "n", "d">>]

\* import { createBrowserRouter, RouterProvider, Outlet } from 'react-router-dom'
\* import React, { [lazy,] Suspense, createElement } from 'react'
LibraryImports(lazy) ==
    << [kind |-> "named",
        declares |-> << <<"c", "r", "e", "a", "t", "e", "B", "r", "o", "w", "s", "e", "r",
                          "R", "o", "u", "t", "e", "r">>,
                        <<"R", "o", "u", "t", "e", "r", "P", "r", "o", "v", "i", "d", "e", "r">>,
                        <<"O", "u", "t", "l", "e", "t">> >>,
        source |-> <<"module", <<"r", "e", "a", "c", "t", "-", "r", "o", "u", "t", "e", "r",
                                  "-", "d", "o", "m">> >>],
       [kind |-> "named",
        declares |-> << <<"R", "e", "a", "c", "t">> >>
                     \o (IF lazy THEN << <<"l", "a", "z", "y">> >> ELSE <<>>)
                     \o << <<"S", "u", "s", "p", "e", "n", "s", "e">>,
                           <<"c", "r", "e", "a", "t", "e", "E", "l", "e", "m", "e", "n", "t">> >>,
        source |-> <<"module", <<"r", "e", "a", "c", "t">> >>] >>

EmptyMap == [k \in {} |-> <<>>]

\* Map.prototype.set
MapSet(map, key, value) == (key :> value) @@ map

NewCollector(lazy) ==
    [statements |-> LibraryImports(lazy),
     componentMap |-> EmptyMap,
     map |-> [layout |-> EmptyMap, loading |-> EmptyMap, error |-> EmptyMap,
              notFound |-> EmptyMap],
     seen |-> [layout |-> {}, loading |-> {}, error |-> {}, notFound |-> {}],
     index |-> [page |-> 0, layout |-> 0, loading |-> 0, error |-> 0, notFound |-> 0]]

\* the page import of a route
ImportPage(c, route, rootDir, lazy) ==
    LET pageName == Prefix.page \o generateImportName(<<>>, route.pattern, c.index.page)
    IN [c EXCEPT !.index.page = @ + 1,
                 !.statements = Append(@, ComponentImport(
                                    pageName, normalizeImportPath(route.pagePath, rootDir), lazy)),
                 !.componentMap = MapSet(@, route.pagePath, pageName)]

ImportAlways(c, kind, path, rootDir, lazy) ==
    LET name == Prefix[kind] \o NumberToString(c.index[kind])
    IN [c EXCEPT !.seen[kind] = @ \cup {path},
                 !.index[kind] = @ + 1,
                 !.statements = Append(@, ComponentImport(
                                    name, normalizeImportPath(path, rootDir), lazy)),
                 !.map[kind] = MapSet(@, path, name)]

\* the import block of a layout, loading, error or not-found file: skipped
\* when the path was seen before
ImportOnce(c, kind, path, rootDir, lazy) ==
    IF path \in c.seen[kind] THEN c
    ELSE LET name == Prefix[kind] \o NumberToString(c.index[kind])
         IN [c EXCEPT !.seen[kind] = @ \cup {path},
                      !.index[kind] = @ + 1,
                      !.statements = Append(@, ComponentImport(
                                         name, normalizeImportPath(path, rootDir), lazy)),
                      !.map[kind] = MapSet(@, path, name)]

RECURSIVE ImportLayouts(_, _, _, _)
ImportLayouts(c, layouts, rootDir, lazy) ==
    IF layouts = <<>> THEN c
    ELSE ImportLayouts(ImportOnce(c, "layout", Head(layouts), rootDir, lazy),
                       Tail(layouts), rootDir, lazy)

\* the entries of route.layoutNotFoundMap, each <<layoutPath, notFoundPath>>
RECURSIVE ImportLayoutNotFound(_, _, _, _)
ImportLayoutNotFound(c, entries, rootDir, lazy) ==
    IF entries = <<>> THEN c
    ELSE ImportLayoutNotFound(ImportOnce(c, "notFound", Head(entries)[2], rootDir, lazy),
                              Tail(entries), rootDir, lazy)

ImportOptional(c, kind, path, rootDir, lazy) ==
    IF path # None THEN ImportOnce(c, kind, path[1], rootDir, lazy) ELSE c

\* one turn of the loop over the routes
ImportRoute(c, route, rootDir, lazy) ==
    LET c1 == ImportPage(c, route, rootDir, lazy)
        c2 == ImportLayouts(c1, route.layouts, rootDir, lazy)
        c3 == ImportOptional(c2, "loading", route.loadingPath, rootDir, lazy)
        c4 == ImportOptional(c3, "error", route.errorPath, rootDir, lazy)
        c5 == ImportOptional(c4, "notFound", route.notFoundPath, rootDir, lazy)
    IN IF route.layoutNotFoundMap # None
       THEN ImportLayoutNotFound(c5, route.layoutNotFoundMap[1], rootDir, lazy)
       ELSE c5

RECURSIVE ImportRoutes(_, _, _, _)
ImportRoutes(c, routes, rootDir, lazy) ==
    IF routes = <<>> THEN c
    ELSE ImportRoutes(ImportRoute(c, Head(routes), rootDir, lazy), Tail(routes), rootDir, lazy)

\* the root not-found import: the path is not added to seenNotFound
ImportRootNotFound(c, rootNotFound, rootDir, lazy) ==
    IF rootNotFound # None /\ rootNotFound[1] \notin c.seen.notFound
    THEN LET name == Prefix.notFound \o NumberToString(c.index.notFound)
         IN [c EXCEPT !.index.notFound = @ + 1,
                      !.statements = Append(@, ComponentImport(
                                         name, normalizeImportPath(rootNotFound[1], rootDir), lazy)),
                      !.map.notFound = MapSet(@, rootNotFound[1], name)]
    ELSE c

\* the CollectedImports a collector stands for
CollectedImports(c) ==
    [statements |-> c.statements,
     componentMap |-> c.componentMap,
     layoutMap |-> c.map.layout,
     loadingMap |-> c.map.loading,
     errorMap |-> c.map.error,
     notFoundMap |-> c.map.notFound]

collectImports(routes, rootDir, lazy, rootNotFound) ==
    CollectedImports(
        ImportRootNotFound(ImportRoutes(NewCollector(lazy), routes, rootDir, lazy),
                           rootNotFound, rootDir, lazy))

----------------------------------------------------------------------------
(* buildRouteExpression, generateRoutesAST *)

\* Map.prototype.get
MapGet(map, key) == IF key \in DOMAIN map THEN Some(map[key]) ELSE None

createSuspenseWrapperAlways(componentName, lazy, loadingComponentName) ==
    [component |-> componentName, suspense |-> TRUE, fallback |-> loadingComponentName]

\* createSuspenseWrapper(componentName, lazy, loadingComponentName): the
\* component inside Suspense with the loading component (or the default
\* div) as fallback when lazy, the bare component otherwise
createSuspenseWrapper(componentName, lazy, loadingComponentName) ==
    IF lazy
    THEN [component |-> componentName, suspense |-> TRUE, fallback |-> loadingComponentName]
    ELSE [component |-> componentName, suspense |-> FALSE, fallback |-> None]

\* createRouteObject of the properties a route configuration may carry
createRouteObject(path, index, element, children, errorElement) ==
    [path |-> path, index |-> index, element |-> element,
     children |-> children, errorElement |-> errorElement]

\* getLayoutNotFoundName of buildRouteExpression
getLayoutNotFoundName(route, notFoundMap, layoutPath) ==
    IF route.layoutNotFoundMap = None THEN None
    ELSE LET entries == route.layoutNotFoundMap[1]
             hits == {k \in DOMAIN entries : entries[k][1] = layoutPath}
         IN IF hits = {} THEN None
            ELSE MapGet(notFoundMap, entries[CHOOSE k \in hits : TRUE][2])

RECURSIVE WrapWithLayoutsReversed(_, _, _, _, _, _, _)
WrapWithLayoutsReversed(innerRoute, route, i, layoutMap, notFoundMap, loadingName, lazy) ==
    IF i < 2 THEN innerRoute
    ELSE LET layoutPath == route.layouts[Len(route.layouts) + 2 - i]
             innerLayoutName == layoutMap[layoutPath]
             layoutNotFoundName == getLayoutNotFoundName(route, notFoundMap, layoutPath)
             childrenRoutes ==
                 <<innerRoute>>
                 \o (IF layoutNotFoundName # None
                     THEN << createRouteObject(Some(<<"*">>), FALSE,
                                createSuspenseWrapper(layoutNotFoundName[1], lazy, None),
                                None, None) >>
                     ELSE <<>>)
         IN WrapWithLayoutsReversed(
                createRouteObject(None, FALSE,
                    createSuspenseWrapper(innerLayoutName, lazy, loadingName),
                    Some(childrenRoutes), None),
                route, i - 1, layoutMap, notFoundMap, loadingName, lazy)

\* the loop of buildRouteExpression over the inner layouts, from layout i
\* out to layout 2
RECURSIVE WrapWithLayouts(_, _, _, _, _, _, _)
WrapWithLayouts(innerRoute, route, i, layoutMap, notFoundMap, loadingName, lazy) ==
    IF i < 2 THEN innerRoute
    ELSE LET layoutPath == route.layouts[i]
             innerLayoutName == layoutMap[layoutPath]
             layoutNotFoundName == getLayoutNotFoundName(route, notFoundMap, layoutPath)
             childrenRoutes ==
                 <<innerRoute>>
                 \o (IF layoutNotFoundName # None
                     THEN << createRouteObject(Some(<<"*">>), FALSE,
                                createSuspenseWrapper(layoutNotFoundName[1], lazy, None),
                                None, None) >>
                     ELSE <<>>)
         IN WrapWithLayouts(
                createRouteObject(None, FALSE,
                    createSuspenseWrapper(innerLayoutName, lazy, loadingName),
                    Some(childrenRoutes), None),
                route, i - 1, layoutMap, notFoundMap, loadingName, lazy)

buildRouteExpressionPathOnly(route, componentMap, layoutMap, loadingMap, errorMap, notFoundMap, lazy) ==
    LET pageName == componentMap[route.pagePath]
        loadingName == IF route.loadingPath # None
                       THEN MapGet(loadingMap, route.loadingPath[1]) ELSE None
        errorName == IF route.errorPath # None
                     THEN MapGet(errorMap, route.errorPath[1]) ELSE None
        leaf == createRouteObject(Some(DropLeadingSlash(route.pattern)), FALSE,
                    createSuspenseWrapper(pageName, lazy, loadingName), None, errorName)
    IN IF Len(route.layouts) > 1
       THEN WrapWithLayouts(leaf, route, Len(route.layouts), layoutMap, notFoundMap,
                            loadingName, lazy)
       ELSE leaf

buildRouteExpression(route, componentMap, layoutMap, loadingMap, errorMap, notFoundMap, lazy) ==
    LET pageName == componentMap[route.pagePath]
        isIndex == route.pattern = <<"/">>
        path == IF isIndex THEN <<>> ELSE DropLeadingSlash(route.pattern)
        loadingName == IF route.loadingPath # None
                       THEN MapGet(loadingMap, route.loadingPath[1]) ELSE None
        errorName == IF route.errorPath # None
                     THEN MapGet(errorMap, route.errorPath[1]) ELSE None
        pageElement == createSuspenseWrapper(pageName, lazy, loadingName)
        leaf == IF isIndex
                THEN createRouteObject(None, TRUE, pageElement, None, errorName)
                ELSE createRouteObject(Some(path), FALSE, pageElement, None, errorName)
    IN IF Len(route.layouts) > 1
       THEN WrapWithLayouts(leaf, route, Len(route.layouts), layoutMap, notFoundMap,
                            loadingName, lazy)
       ELSE leaf

RECURSIVE routesByRootLayoutUnmerged(_)
routesByRootLayoutUnmerged(routes) ==
    IF routes = <<>> THEN <<>>
    ELSE LET front == routesByRootLayoutUnmerged(SubSeq(routes, 1, Len(routes) - 1))
             route == routes[Len(routes)]
         IN IF Len(route.layouts) = 0 THEN front
            ELSE Append(front, [rootLayoutPath |-> route.layouts[1], layoutRoutes |-> <<route>>])

\* routesByRootLayout: the first layouts in the order they are first met,
\* each with its routes in route order
RECURSIVE routesByRootLayout(_)
routesByRootLayout(routes) ==
    IF routes = <<>> THEN <<>>
    ELSE LET front == routesByRootLayout(SubSeq(routes, 1, Len(routes) - 1))
             route == routes[Len(routes)]
         IN IF Len(route.layouts) = 0 THEN front
            ELSE IF \E k \in DOMAIN front : front[k].rootLayoutPath = route.layouts[1]
            THEN [k \in DOMAIN front |->
                     IF front[k].rootLayoutPath = route.layouts[1]
                     THEN [front[k] EXCEPT !.layoutRoutes = Append(@, route)]
                     ELSE front[k]]
            ELSE Append(front, [rootLayoutPath |-> route.layouts[1], layoutRoutes |-> <<route>>])

HasNoLayout(route) == Len(route.layouts) = 0

\* the configuration of one root layout and its routes
RootLayoutDefinition(group, c, lazy) ==
    LET rootLayoutName == c.layoutMap[group.rootLayoutPath]
        firstRoute == group.layoutRoutes[1]
        rootLoadingName == IF firstRoute.loadingPath # None
                           THEN MapGet(c.loadingMap, firstRoute.loadingPath[1]) ELSE None
        rootErrorName == IF firstRoute.errorPath # None
                         THEN MapGet(c.errorMap, firstRoute.errorPath[1]) ELSE None
        childRoutes == [k \in DOMAIN group.layoutRoutes |->
                           buildRouteExpression(group.layoutRoutes[k], c.componentMap,
                               c.layoutMap, c.loadingMap, c.errorMap, c.notFoundMap, lazy)]
    IN createRouteObject(Some(<<"/">>), FALSE,
           createSuspenseWrapper(rootLayoutName, lazy, rootLoadingName),
           Some(childRoutes), rootErrorName)

\* the configuration of a route without layout
PlainRouteDefinition(route, c, lazy) ==
    LET pageName == c.componentMap[route.pagePath]
        loadingName == IF route.loadingPath # None
                       THEN MapGet(c.loadingMap, route.loadingPath[1]) ELSE None
        errorName == IF route.errorPath # None
                     THEN MapGet(c.errorMap, route.errorPath[1]) ELSE None
    IN createRouteObject(Some(route.pattern), FALSE,
           createSuspenseWrapper(pageName, lazy, loadingName), None, errorName)

\* the names a module exports
EXPORT_APP_ROUTER == "AppRouter"
EXPORT_ROUTER == "router"
EXPORT_ROUTES == "routes"
EXPORT_DEFAULT == "default"

generateEmptyRoutesAST ==
    [statements |-> << [kind |-> "named",
                        declares |-> << <<"c", "r", "e", "a", "t", "e", "E", "l", "e", "m", "e", "n", "t">> >>,
                        source |-> <<"module", <<"r", "e", "a", "c", "t">> >>],
                       [kind |-> "named",
                        declares |-> << <<"c", "r", "e", "a", "t", "e", "B", "r", "o", "w", "s", "e", "r",
                                          "R", "o", "u", "t", "e", "r">>,
                                        <<"R", "o", "u", "t", "e", "r", "P", "r", "o", "v", "i", "d", "e", "r">> >>,
                        source |-> <<"module", <<"r", "e", "a", "c", "t", "-", "r", "o", "u", "t", "e", "r",
                                                  "-", "d", "o", "m">> >>] >>,
     routes |-> <<>>,
     exports |-> {EXPORT_APP_ROUTER, EXPORT_ROUTER, EXPORT_DEFAULT}]

\* the route definitions array of generateRoutesAST: the root layouts, the
\* routes without layout, the root not-found route
RouteDefinitions(groups, routesWithoutLayout, c, lazy, rootNotFound) ==
    [k \in DOMAIN groups |-> RootLayoutDefinition(groups[k], c, lazy)]
    \o [k \in DOMAIN routesWithoutLayout |->
           PlainRouteDefinition(routesWithoutLayout[k], c, lazy)]
    \o (IF rootNotFound # None /\ rootNotFound[1] \in DOMAIN c.notFoundMap
        THEN << createRouteObject(Some(<<"*">>), FALSE,
                   createSuspenseWrapper(c.notFoundMap[rootNotFound[1]], lazy, None),
                   None, None) >>
        ELSE <<>>)

\* the program of generateRoutesAST for the collected imports c
RoutesProgram(routes, c, lazy, rootNotFound) ==
    [statements |-> c.statements,
     routes |-> RouteDefinitions(routesByRootLayout(routes), SelectSeq(routes, HasNoLayout),
                                 c, lazy, rootNotFound),
     exports |-> {EXPORT_APP_ROUTER, EXPORT_ROUTER, EXPORT_ROUTES, EXPORT_DEFAULT}]

generateRoutesAST(routes, rootDir, lazy, rootNotFound) ==
    IF Len(routes) = 0 THEN generateEmptyRoutesAST
    ELSE RoutesProgram(routes, collectImports(routes, rootDir, lazy, rootNotFound),
                       lazy, rootNotFound)

\* generate(ast).code: the text is the program it prints
generateRoutesCode(routes, rootDir, lazy, rootNotFound) ==
    generateRoutesAST(routes, rootDir, lazy, rootNotFound)

\* { ...options, lazy: false }
generateBuildRoutesCode(routes, rootDir, lazy, rootNotFound) ==
    generateRoutesCode(routes, rootDir, FALSE, rootNotFound)

generateDevRoutesCodeStatic(routes, rootDir, lazy, rootNotFound) ==
    generateRoutesCode(routes, rootDir, FALSE, rootNotFound)

\* { ...options, lazy: true }
generateDevRoutesCode(routes, rootDir, lazy, rootNotFound) ==
    generateRoutesCode(routes, rootDir, TRUE, rootNotFound)

generateEmptyRoutesCode == generateEmptyRoutesAST

----------------------------------------------------------------------------
(* The environment and the operations *)

TSX == <<".", "t", "s", "x">>

\* directory names of each kind: static, group, dynamic, catch-all,
\* private, ignored
DirNames ==
    { <<"a">>, <<"(", "g", ")">>, <<"[", "a", "]">>, <<"_", "p">>, <<"l", "i", "b">> }

\* sibling names: two of each sort category
SortNames ==
    { <<"a">>, <<"b">>, <<"(", "g", ")">>, <<"[", "a", "]">>, <<"[", "b", "]">>,
      <<"[", ".", ".", ".", "a", "]">>, <<"[", "[", ".", ".", ".", "b", "]", "]">> }

\* names whose patterns differ and whose identifiers may not
PageNames == { <<"a">>, <<"[", "a", "]">>, <<"(", "g", ")">> }

CtxNames == { <<"a">>, <<"(", "g", ")">> }

\* names with characters that are neither letters nor route syntax
OtherNames ==
    { <<"a">>, <<"a", "-", "b">>, <<"a", ".", "b">>, <<"[", "a", "-", "b", "]">>,
      <<"[", ".", ".", ".", "a", "]">>, <<"(", "g", ")">> }

ConventionFiles == {PAGE \o TSX, LAYOUT \o TSX, LOADING \o TSX, ERROR \o TSX, NOT_FOUND \o TSX}

Range(s) == {s[i] : i \in DOMAIN s}

InsertAt(s, pos, x) == SubSeq(s, 1, pos) \o <<x>> \o SubSeq(s, pos + 1, Len(s))

\* the environment creates directory `name` in `parent`; the file system
\* lists it at any place among its siblings
Mkdir(parent, name, pos) ==
    /\ phase = "edit"
    /\ parent \in DOMAIN ls
    /\ Len(parent) < shape.depth
    /\ Cardinality(DOMAIN ls) - 1 < shape.dirs
    /\ name \in names
    /\ name \notin Range(ls[parent])
    /\ pos \in 0..Len(ls[parent])
    /\ ls' = [d \in DOMAIN ls \cup {Join(parent, name)} |->
                 IF d = parent THEN InsertAt(ls[parent], pos, name)
                 ELSE IF d \in DOMAIN ls THEN ls[d] ELSE <<>>]
    /\ UNCHANGED <<segment, segInfo, names, fileNames, shape, files, phase, parsed, options, imports, program, pluginVars>>

\* the environment creates file `fileName` in directory `dir`
Touch(dir, fileName) ==
    /\ phase = "edit"
    /\ dir \in DOMAIN ls
    /\ fileName \in fileNames
    /\ FilePath(dir, fileName) \notin files
    /\ Cardinality(files) < shape.files
    /\ files' = files \cup {FilePath(dir, fileName)}
    /\ UNCHANGED <<segment, segInfo, names, fileNames, shape, ls, phase, parsed, options, imports, program, pluginVars>>

\* parseAppRouter({ appDir }) on the tree as it is
ParseAppRouter ==
    /\ phase = "edit"
    /\ parsed' = Some(parseAppRouter(<<>>, DEFAULT_EXTENSIONS))
    /\ phase' = "parsed"
    /\ UNCHANGED <<segment, segInfo, names, fileNames, shape, ls, files, options, imports, program, pluginVars>>

\* parseAppRouter({ appDir }) on a directory that may not exist
ParseAppRouterAt(appDir) ==
    /\ phase = "edit"
    /\ options' = Some([appDir |-> appDir])
    /\ parsed' = Some(parseAppRouter(appDir, DEFAULT_EXTENSIONS))
    /\ phase' = "parsed"
    /\ UNCHANGED <<segment, segInfo, names, fileNames, shape, ls, files, imports, program, pluginVars>>

\* generateRoutesAST: collectImports unless there is no route
generateRoutes(routes, rootDir, lazy, rootNotFound) ==
    IF Len(routes) = 0 THEN None
    ELSE Some(collectImports(routes, rootDir, lazy, rootNotFound))

\* generateDevRoutesCode (lazy) or generateBuildRoutesCode (static) on the
\* parsed routes, with the options the plugin passes: no rootNotFound
GenerateRoutes(lazy) ==
    /\ phase = "parsed"
    /\ options' = Some([lazy |-> lazy, rootNotFound |-> None])
    /\ imports' = generateRoutes(parsed[1].routes, <<>>, lazy, None)
    /\ program' = Some(IF lazy THEN generateDevRoutesCode(parsed[1].routes, <<>>, lazy, None)
                        ELSE generateBuildRoutesCode(parsed[1].routes, <<>>, lazy, None))
    /\ phase' = "generated"
    /\ UNCHANGED <<segment, segInfo, names, fileNames, shape, ls, files, parsed, pluginVars>>

\* generateRoutesCode(routes, { rootDir, lazy, rootNotFound }) called with a
\* route list and options of the caller's own
GenerateRoutesCode(lazy, rootNotFound) ==
    /\ phase = "routes"
    /\ options' = Some([lazy |-> lazy, rootNotFound |-> rootNotFound])
    /\ imports' = generateRoutes(parsed[1].routes, <<>>, lazy, rootNotFound)
    /\ program' = Some(generateRoutesCode(parsed[1].routes, <<>>, lazy, rootNotFound))
    /\ phase' = "generated"
    /\ UNCHANGED <<segment, segInfo, names, fileNames, shape, ls, files, parsed, pluginVars>>

\* parseSegment on the given name
ClassifySegment ==
    /\ phase = "segment"
    /\ segInfo = None
    /\ segInfo' = Some(parseSegment(segment))
    /\ UNCHANGED <<segment, names, fileNames, shape, ls, files, phase, parsed, options, imports, program, pluginVars>>

----------------------------------------------------------------------------
(* The plugin: reactAppRouterPlugin and its serve and build handlers *)

VIRTUAL_MODULE_ID == "virtual:app-router"

\* "\0" + VIRTUAL_MODULE_ID + ".js", the NUL character written as \0
RESOLVED_VIRTUAL_MODULE_ID == "\\0" \o VIRTUAL_MODULE_ID \o ".js"

\* `{}` as PluginOptions
EmptyOptions == [appDir |-> None, extensions |-> None, lazy |-> None]

SRC == <<"s", "r", "c">>
APP == <<"a", "p", "p">>

\* path.join(rootDir, "src/app")
DefaultAppDir(rootDir) == Join(Join(rootDir, SRC), APP)

\* options.appDir || path.join(rootDir, "src/app")
AppDirOf(opts, rootDir) ==
    IF opts.appDir # None THEN opts.appDir[1] ELSE DefaultAppDir(rootDir)

\* options.extensions || DEFAULT_EXTENSIONS
ExtensionsOf(opts) ==
    IF opts.extensions # None THEN opts.extensions[1] ELSE DEFAULT_EXTENSIONS

\* regenerateRoutes of the serve handler: the text returned and ctx after it
\* ctx.cachedCode = code; return ctx.cachedCode
ReturnCached(ctx, code) == [code |-> code, ctx |-> [ctx EXCEPT !.cachedCode = Some(code)]]

\* regenerateRoutes once ctx.config is there
RegenerateIn(ctx, rootDir, appDir) ==
    IF ~existsSyncDir(appDir)
    THEN [code |-> generateEmptyRoutesCode, ctx |-> [ctx EXCEPT !.appDir = Some(appDir)]]
    ELSE ReturnCached([ctx EXCEPT !.appDir = Some(appDir)],
             generateDevRoutesCode(parseAppRouter(appDir, ExtensionsOf(ctx.options)).routes,
                                   rootDir, TRUE, None))

regenerateRoutesCached(ctx) ==
    IF ctx.cachedCode # None THEN [code |-> ctx.cachedCode[1], ctx |-> ctx]
    ELSE IF ctx.config = None THEN [code |-> generateEmptyRoutesCode, ctx |-> ctx]
    ELSE RegenerateIn(ctx, ctx.config[1].root, AppDirOf(ctx.options, ctx.config[1].root))

regenerateRoutes(ctx) ==
    IF ctx.config = None THEN [code |-> generateEmptyRoutesCode, ctx |-> ctx]
    ELSE RegenerateIn(ctx, ctx.config[1].root, AppDirOf(ctx.options, ctx.config[1].root))

\* 'export default function AppRouter() { return null; }'
NullComponentModule ==
    [statements |-> <<>>, routes |-> <<>>, exports |-> {EXPORT_DEFAULT}]

\* the text generateRoutes of the build handler returns for a missing app
\* directory
MissingAppDirModule ==
    [statements |-> << [kind |-> "named",
                        declares |-> << <<"c", "r", "e", "a", "t", "e", "B", "r", "o", "w", "s", "e", "r",
                                          "R", "o", "u", "t", "e", "r">>,
                                        <<"R", "o", "u", "t", "e", "r", "P", "r", "o", "v", "i", "d", "e", "r">> >>,
                        source |-> <<"module", <<"r", "e", "a", "c", "t", "-", "r", "o", "u", "t", "e", "r",
                                                  "-", "d", "o", "m">> >>] >>,
     routes |-> <<>>,
     exports |-> {EXPORT_APP_ROUTER, EXPORT_DEFAULT}]

\* generateRoutes of the build handler: the text returned and ctx after it
\* ctx.generatedCode = code; return ctx.generatedCode
ReturnGenerated(ctx, code) ==
    [code |-> code, ctx |-> [ctx EXCEPT !.generatedCode = Some(code)]]

\* generateRoutes of the build handler once ctx.config is there
GenerateIn(ctx, rootDir, appDir) ==
    IF ~existsSyncDir(appDir)
    THEN [code |-> MissingAppDirModule, ctx |-> ctx]
    ELSE ReturnGenerated(ctx,
             generateBuildRoutesCode(parseAppRouter(appDir, ExtensionsOf(ctx.options)).routes,
                                     rootDir, FALSE, None))

generateRoutesForBuild(ctx) ==
    IF ctx.config = None THEN [code |-> NullComponentModule, ctx |-> ctx]
    ELSE GenerateIn(ctx, ctx.config[1].root, AppDirOf(ctx.options, ctx.config[1].root))

resolveIdWithSuffix(id) ==
    IF id \in {VIRTUAL_MODULE_ID, VIRTUAL_MODULE_ID \o ".js"}
    THEN Some(RESOLVED_VIRTUAL_MODULE_ID) ELSE None

\* resolveId of the serve and of the build module
resolveId(id) ==
    IF id = VIRTUAL_MODULE_ID THEN Some(RESOLVED_VIRTUAL_MODULE_ID) ELSE None

\* the path of a directory and of a file as a string
RECURSIVE DirString(_)
DirString(dir) ==
    IF dir = <<>> THEN <<>> ELSE DirString(SubSeq(dir, 1, Len(dir) - 1)) \o <<"/">> \o dir[Len(dir)]

FileString(file) == DirString(file[1]) \o <<"/">> \o file[2]

\* isAppFile of the serve handler
isAppFile(ctx, file) ==
    IF ctx.appDir = None THEN FALSE
    ELSE StartsWith(FileString(file), DirString(ctx.appDir[1]))

\* isRouteFile of the serve handler
isRouteFile(file) ==
    \E rf \in {PAGE, LAYOUT, LOADING, ERROR, NOT_FOUND} : StartsWith(file[2], rf)

\* config(config, env): the plugin picks the serve or the build module
Config(command) ==
    /\ context.currentModule = None
    /\ context' = [context EXCEPT
                      !.currentModule = Some(IF command = "serve" THEN "server" ELSE "build")]
    /\ UNCHANGED <<segment, segInfo, names, fileNames, shape, ls, files, phase, parsed, options,
                   imports, program, serverCtx, buildCtx, server, returned>>

\* configResolved(config): the serve handler stores the config, the build
\* handler stores it and generates the routes
ConfigResolved ==
    /\ context.currentModule # None
    /\ IF context.currentModule = Some("server")
       THEN /\ serverCtx.config = None
            /\ serverCtx' = [serverCtx EXCEPT !.config = Some([root |-> <<>>])]
            /\ UNCHANGED buildCtx
       ELSE /\ buildCtx.config = None
            /\ buildCtx' = generateRoutesForBuild(
                               [buildCtx EXCEPT !.config = Some([root |-> <<>>])]).ctx
            /\ UNCHANGED serverCtx
    /\ UNCHANGED <<segment, segInfo, names, fileNames, shape, ls, files, phase, parsed, options,
                   imports, program, context, server, returned>>

\* resolveId(id) of the plugin
ResolveId(id) ==
    /\ returned' = Some([hook |-> "resolveId", id |-> id,
                         value |-> IF context.currentModule = None THEN None ELSE resolveId(id)])
    /\ UNCHANGED <<segment, segInfo, names, fileNames, shape, ls, files, phase, parsed, options,
                   imports, program, context, serverCtx, buildCtx, server>>

\* load(id) of the plugin; the dev server enters a loaded module in its
\* module graph
\* load of the serve module returned `result`
LoadedForServe(id, result) ==
    /\ returned' = Some([hook |-> "load", id |-> id, value |-> Some(result.code)])
    /\ serverCtx' = result.ctx
    /\ server' = [server EXCEPT !.moduleGraph = @ \cup {id}, !.invalidated = @ \ {id}]
    /\ UNCHANGED buildCtx

\* load of the build module returned `result`
LoadedForBuild(id, result) ==
    /\ returned' = Some([hook |-> "load", id |-> id, value |-> Some(result.code)])
    /\ buildCtx' = result.ctx
    /\ UNCHANGED <<serverCtx, server>>

Load(id) ==
    /\ IF context.currentModule = None \/ id # RESOLVED_VIRTUAL_MODULE_ID
       THEN /\ returned' = Some([hook |-> "load", id |-> id, value |-> None])
            /\ UNCHANGED <<serverCtx, buildCtx, server>>
       ELSE IF context.currentModule = Some("server")
       THEN LoadedForServe(id, regenerateRoutes(serverCtx))
       ELSE LoadedForBuild(id, IF buildCtx.generatedCode # None
                               THEN [code |-> buildCtx.generatedCode[1], ctx |-> buildCtx]
                               ELSE generateRoutesForBuild(buildCtx))
    /\ UNCHANGED <<segment, segInfo, names, fileNames, shape, ls, files, phase, parsed, options,
                   imports, program, context>>

\* handleHotUpdate({ file, server }) of the serve handler
HandleHotUpdate(file) ==
    /\ context.currentModule = Some("server")
    /\ file \in files
    /\ Len(server.ws) < MaxMessages
    /\ IF isAppFile(serverCtx, file) /\ isRouteFile(file)
       THEN /\ serverCtx' = [serverCtx EXCEPT !.cachedCode = None]
            /\ IF RESOLVED_VIRTUAL_MODULE_ID \in server.moduleGraph
               THEN server' = [server EXCEPT
                                  !.invalidated = @ \cup {RESOLVED_VIRTUAL_MODULE_ID},
                                  !.ws = Append(@, [type |-> "full-reload", path |-> "*"])]
               ELSE UNCHANGED server
       ELSE UNCHANGED <<serverCtx, server>>
    /\ UNCHANGED <<segment, segInfo, names, fileNames, shape, ls, files, phase, parsed, options,
                   imports, program, context, buildCtx, returned>>

\* reactAppRouterPlugin(options) before any hook ran
NewPlugin(pluginOptions) ==
    /\ context = [options |-> pluginOptions, currentModule |-> None]
    /\ serverCtx = [config |-> None, options |-> EmptyOptions, cachedCode |-> None, appDir |-> None]
    /\ buildCtx = [config |-> None, options |-> EmptyOptions, generatedCode |-> None]
    /\ server = [moduleGraph |-> {}, invalidated |-> {}, ws |-> <<>>]
    /\ returned = None

----------------------------------------------------------------------------
(* Specifications *)

EmptyTree ==
    /\ ls = (<<>> :> <<>>)
    /\ files = {}
    /\ parsed = None
    /\ options = None
    /\ imports = None
    /\ program = None
    /\ NewPlugin(EmptyOptions)

\* Spec: trees of directories of every kind, holding page files
Init ==
    /\ segment = <<>> /\ segInfo = None
    /\ names = DirNames
    /\ fileNames = {PAGE \o TSX}
    /\ shape = [depth |-> MaxDepth, dirs |-> MaxDirs, files |-> MaxPages]
    /\ phase = "edit"
    /\ EmptyTree

Next ==
    \/ \E parent \in DOMAIN ls, name \in names, pos \in 0..MaxDirs : Mkdir(parent, name, pos)
    \/ \E dir \in DOMAIN ls, fileName \in fileNames : Touch(dir, fileName)
    \/ ParseAppRouter

Spec == Init /\ [][Next]_vars

\* SpecSort: directories of every sort category, listed in any order
InitSort ==
    /\ segment = <<>> /\ segInfo = None
    /\ names = SortNames
    /\ fileNames = {}
    /\ shape = [depth |-> SortDepth, dirs |-> MaxSiblings, files |-> 0]
    /\ phase = "edit"
    /\ EmptyTree

NextSort ==
    \/ \E parent \in DOMAIN ls, name \in names, pos \in 0..MaxSiblings : Mkdir(parent, name, pos)
    \/ ParseAppRouter

SpecSort == InitSort /\ [][NextSort]_vars

\* SpecContext: trees holding every convention file, parsed and generated
InitContext ==
    /\ segment = <<>> /\ segInfo = None
    /\ names = CtxNames
    /\ fileNames = ConventionFiles
    /\ shape = [depth |-> MaxDepth, dirs |-> CtxMaxDirs, files |-> CtxMaxFiles]
    /\ phase = "edit"
    /\ EmptyTree

NextGenerate ==
    \/ \E parent \in DOMAIN ls, name \in names, pos \in 0..MaxDirs : Mkdir(parent, name, pos)
    \/ \E dir \in DOMAIN ls, fileName \in fileNames : Touch(dir, fileName)
    \/ ParseAppRouter
    \/ \E lazy \in BOOLEAN : GenerateRoutes(lazy)

SpecContext == InitContext /\ [][Next]_vars

\* SpecPages: trees of page files, parsed and generated
InitPages ==
    /\ segment = <<>> /\ segInfo = None
    /\ names = PageNames
    /\ fileNames = {PAGE \o TSX}
    /\ shape = [depth |-> MaxDepth, dirs |-> MaxDirs, files |-> MaxPages]
    /\ phase = "edit"
    /\ EmptyTree

SpecPages == InitPages /\ [][NextGenerate]_vars

\* SpecNames: trees of directories whose names hold other characters,
\* each directory with a page, parsed and generated
InitNames ==
    /\ segment = <<>> /\ segInfo = None
    /\ names = OtherNames
    /\ fileNames = {PAGE \o TSX}
    /\ shape = [depth |-> NameDepth, dirs |-> NameDirs, files |-> NameDirs]
    /\ phase = "edit"
    /\ EmptyTree

SpecNames == InitNames /\ [][NextGenerate]_vars

\* SpecAbsent: parseAppRouter on directories of the tree and on
\* directories that are not there
InitAbsent ==
    /\ segment = <<>> /\ segInfo = None
    /\ names = CtxNames
    /\ fileNames = {PAGE \o TSX, LAYOUT \o TSX}
    /\ shape = [depth |-> NameDepth, dirs |-> NameDirs, files |-> NameDirs]
    /\ phase = "edit"
    /\ EmptyTree

NextAbsent ==
    \/ \E parent \in DOMAIN ls, name \in names, pos \in 0..MaxDirs : Mkdir(parent, name, pos)
    \/ \E dir \in DOMAIN ls, fileName \in fileNames : Touch(dir, fileName)
    \/ \E dir \in DOMAIN ls : ParseAppRouterAt(dir)
    \/ \E dir \in DOMAIN ls, name \in names : ParseAppRouterAt(Join(dir, name))

SpecAbsent == InitAbsent /\ [][NextAbsent]_vars

\* SpecModule: trees holding every convention file, parsed and generated
InitModule ==
    /\ segment = <<>> /\ segInfo = None
    /\ names = CtxNames
    /\ fileNames = ConventionFiles
    /\ shape = [depth |-> ModDepth, dirs |-> ModMaxDirs, files |-> ModMaxFiles]
    /\ phase = "edit"
    /\ EmptyTree

SpecModule == InitModule /\ [][NextGenerate]_vars

\* SpecNested: a directory in a directory, or two directories side by side,
\* holding any convention files, parsed and generated
A == <<"a">>
B == <<"b">>

NestedTrees ==
    { [d \in {<<>>, <<A>>, <<A, B>>} |->
          IF d = <<>> THEN <<A>> ELSE IF d = <<A>> THEN <<B>> ELSE <<>>],
      [d \in {<<>>, <<A>>, <<B>>} |-> IF d = <<>> THEN <<A, B>> ELSE <<>>] }

InitNested ==
    /\ segment = <<>> /\ segInfo = None
    /\ names = {}
    /\ fileNames = ConventionFiles
    /\ shape = [depth |-> 0, dirs |-> 0, files |-> NestMaxFiles]
    /\ phase = "edit"
    /\ ls \in NestedTrees
    /\ files = {}
    /\ parsed = None /\ options = None /\ imports = None /\ program = None
    /\ NewPlugin(EmptyOptions)

NextNested ==
    \/ \E dir \in DOMAIN ls, fileName \in fileNames : Touch(dir, fileName)
    \/ ParseAppRouter
    \/ \E lazy \in BOOLEAN : GenerateRoutes(lazy)

SpecNested == InitNested /\ [][NextNested]_vars

\* SpecLazy: the hooks of the plugin, given every value of the lazy option,
\* while convention files appear in src/app
LazyOptionsGiven ==
    { [appDir |-> None, extensions |-> None, lazy |-> lazy] : lazy \in {None, Some(TRUE), Some(FALSE)} }

InitLazy ==
    /\ segment = <<>> /\ segInfo = None
    /\ names = {}
    /\ fileNames = ConventionFiles
    /\ shape = [depth |-> 0, dirs |-> 0, files |-> LazyMaxFiles]
    /\ phase = "edit"
    /\ ls = [d \in {<<>>, <<SRC>>, <<SRC, APP>>} |->
                 IF d = <<>> THEN <<SRC>> ELSE IF d = <<SRC>> THEN <<APP>> ELSE <<>>]
    /\ files = {}
    /\ parsed = None /\ options = None /\ imports = None /\ program = None
    /\ \E pluginOptions \in LazyOptionsGiven : NewPlugin(pluginOptions)

NextLazy ==
    \/ \E fileName \in fileNames : Touch(DefaultAppDir(<<>>), fileName)
    \/ \E command \in {"serve", "build"} : Config(command)
    \/ ConfigResolved
    \/ Load(RESOLVED_VIRTUAL_MODULE_ID)
    \/ \E file \in files : HandleHotUpdate(file)

SpecLazy == InitLazy /\ [][NextLazy]_vars

\* SpecPlugin: the hooks of the plugin in any order, while files appear in
\* a project with or without src/app and with or without another directory
X == <<"x">>
MDX == <<".", "m", "d", "x">>

ProjectTrees ==
    { [d \in {<<>>} |-> <<>>],
      [d \in {<<>>, <<SRC>>, <<SRC, APP>>} |->
          IF d = <<>> THEN <<SRC>> ELSE IF d = <<SRC>> THEN <<APP>> ELSE <<>>],
      [d \in {<<>>, <<SRC>>, <<SRC, APP>>, <<X>>} |->
          IF d = <<>> THEN <<SRC, X>> ELSE IF d = <<SRC>> THEN <<APP>> ELSE <<>>],
      [d \in {<<>>, <<X>>} |-> IF d = <<>> THEN <<X>> ELSE <<>>] }

PluginOptionsGiven ==
    { EmptyOptions,
      [appDir |-> Some(<<X>>), extensions |-> None, lazy |-> None],
      [appDir |-> None, extensions |-> Some(<<MDX>>), lazy |-> None] }

Ids ==
    { VIRTUAL_MODULE_ID, RESOLVED_VIRTUAL_MODULE_ID, VIRTUAL_MODULE_ID \o ".js",
      "\\0" \o VIRTUAL_MODULE_ID, "/src/main.tsx" }

InitPlugin ==
    /\ segment = <<>> /\ segInfo = None
    /\ names = {}
    /\ fileNames = {PAGE \o TSX, PAGE \o MDX, NOT_FOUND \o TSX}
    /\ shape = [depth |-> 0, dirs |-> 0, files |-> PluginMaxFiles]
    /\ phase = "edit"
    /\ ls \in ProjectTrees
    /\ files = {}
    /\ parsed = None /\ options = None /\ imports = None /\ program = None
    /\ \E pluginOptions \in PluginOptionsGiven : NewPlugin(pluginOptions)

NextPlugin ==
    \/ \E dir \in DOMAIN ls, fileName \in fileNames : Touch(dir, fileName)
    \/ \E command \in {"serve", "build"} : Config(command)
    \/ ConfigResolved
    \/ \E id \in Ids : ResolveId(id)
    \/ \E id \in Ids : Load(id)
    \/ \E file \in files : HandleHotUpdate(file)

SpecPlugin == InitPlugin /\ [][NextPlugin]_vars

\* SpecSegment: parseSegment on every name of at most MaxLen characters over
\* the bracket characters and over the parenthesis characters
BracketChars == {"[", "]", ".", "a"}
ParenChars == {"(", ")", "[", "a"}

StringsOver(chars) == UNION {[1..n -> chars] : n \in 0..MaxLen}

InitSegment ==
    /\ segment \in StringsOver(BracketChars) \cup StringsOver(ParenChars)
    /\ segInfo = None
    /\ names = {} /\ fileNames = {}
    /\ shape = [depth |-> 0, dirs |-> 0, files |-> 0]
    /\ phase = "segment"
    /\ EmptyTree

NextSegment == ClassifySegment

SpecSegment == InitSegment /\ [][NextSegment]_vars

\* SpecImports: generateRoutesCode on route lists of at most MaxRoutes
\* routes that share layout, loading, error and not-found files
RootDirOf(i) == [j \in 1..(i - 1) |-> <<"a">>]

RECURSIVE PatternOf(_)
PatternOf(dir) ==
    IF dir = <<>> THEN <<>> ELSE <<"/">> \o Head(dir) \o PatternOf(Tail(dir))

Layout1 == FilePath(<<>>, LAYOUT \o TSX)
Layout2 == FilePath(<< <<"a">> >>, LAYOUT \o TSX)
Loading1 == FilePath(<<>>, LOADING \o TSX)
Error1 == FilePath(<<>>, ERROR \o TSX)
NotFound1 == FilePath(<<>>, NOT_FOUND \o TSX)
NotFound2 == FilePath(<< <<"a">> >>, NOT_FOUND \o TSX)

\* the routes that may stand at place i of the list
RoutesAt(i) ==
    { [pattern |-> OrElse(PatternOf(RootDirOf(i)), <<"/">>),
       pagePath |-> FilePath(RootDirOf(i), PAGE \o TSX),
       layouts |-> layouts,
       loadingPath |-> loadingPath,
       errorPath |-> errorPath,
       notFoundPath |-> notFound[1],
       layoutNotFoundMap |-> notFound[2]] :
         layouts \in {<<>>, <<Layout1>>, <<Layout1, Layout2>>},
         loadingPath \in {None, Some(Loading1)},
         errorPath \in {None, Some(Error1)},
         notFound \in { <<None, None>>, <<Some(NotFound1), None>>,
                        <<None, Some(<< <<Layout1, NotFound2>> >>)>> } }

RECURSIVE RouteLists(_)
RouteLists(n) ==
    IF n = 0 THEN {<<>>}
    ELSE {Append(rs, r) : rs \in RouteLists(n - 1), r \in RoutesAt(n)}

InitImports ==
    /\ segment = <<>> /\ segInfo = None
    /\ names = {} /\ fileNames = {}
    /\ shape = [depth |-> 0, dirs |-> 0, files |-> 0]
    /\ phase = "routes"
    /\ ls = (<<>> :> <<>>)
    /\ files = {}
    /\ \E n \in 0..MaxRoutes : \E rs \in RouteLists(n) :
           parsed = Some([routes |-> rs, tree |-> <<>>, rootLayout |-> None, rootPage |-> None])
    /\ options = None
    /\ imports = None
    /\ program = None
    /\ NewPlugin(EmptyOptions)

NextImports ==
    \E lazy \in BOOLEAN, rootNotFound \in {None, Some(NotFound1), Some(NotFound2)} :
        GenerateRoutesCode(lazy, rootNotFound)

SpecImports == InitImports /\ [][NextImports]_vars

----------------------------------------------------------------------------
(* Properties *)

\* the kind of a directory name, read off its characters
IsGroupName(s) == Len(s) >= 2 /\ s[1] = "(" /\ s[Len(s)] = ")"
IsOptionalCatchAllName(s) ==
    /\ Len(s) >= 7
    /\ s[1] = "[" /\ s[2] = "[" /\ s[3] = "." /\ s[4] = "." /\ s[5] = "."
    /\ s[Len(s) - 1] = "]" /\ s[Len(s)] = "]"
IsCatchAllName(s) ==
    /\ Len(s) >= 5
    /\ s[1] = "[" /\ s[2] = "." /\ s[3] = "." /\ s[4] = "."
    /\ s[Len(s)] = "]"
IsDynamicName(s) == Len(s) >= 2 /\ s[1] = "[" /\ s[Len(s)] = "]"

KindOfName(s) ==
    IF IsGroupName(s) THEN "group"
    ELSE IF IsOptionalCatchAllName(s) THEN "optional-catch-all"
    ELSE IF IsCatchAllName(s) THEN "catch-all"
    ELSE IF IsDynamicName(s) THEN "dynamic"
    ELSE "static"

\* the kinds a parseSegment record stands for
KindsOfInfo(info) ==
    {k \in {"group", "optional-catch-all", "catch-all", "dynamic", "static"} :
        \/ k = "group" /\ info.isGroup
        \/ k = "optional-catch-all" /\ info.isOptionalCatchAll
        \/ k = "catch-all" /\ info.isCatchAll
        \/ k = "dynamic" /\ info.isDynamic /\ ~info.isCatchAll /\ ~info.isOptionalCatchAll
        \/ k = "static" /\ ~info.isGroup /\ ~info.isDynamic /\ ~info.isCatchAll
                        /\ ~info.isOptionalCatchAll}

FragmentOfName(s) ==
    CASE KindOfName(s) = "group" -> <<>>
      [] KindOfName(s) \in {"optional-catch-all", "catch-all"} -> <<"*">>
      [] KindOfName(s) = "dynamic" -> <<":">> \o SubSeq(s, 2, Len(s) - 1)
      [] OTHER -> s

\* C1: parseSegment gives every name exactly one kind, the first that matches
\* in the order group, optional catch-all, catch-all, dynamic, static, and the
\* fragment of that kind: empty, `*`, `*`, `:`+paramName, the name itself.
C1_SegmentClassification ==
    segInfo # None =>
        LET info == segInfo[1]
        IN /\ KindsOfInfo(info) = {KindOfName(segment)}
           /\ info.routeSegment = FragmentOfName(segment)
           /\ (KindOfName(segment) = "dynamic" =>
                  info.routeSegment = <<":">> \o info.paramName[1])

\* an optional catch-all and a malformed name were classified
C1_Witness ==
    /\ segInfo # None
    /\ segment = <<"[", "[", ".", ".", ".", "]", "]">>
    /\ segInfo[1].isOptionalCatchAll

\* every <<directory, node>> of a node list read below directory `dir`
RECURSIVE NodesBelow(_, _)
NodesBelow(nodes, dir) ==
    UNION { {<<Join(dir, nodes[i].segment), nodes[i]>>}
            \cup NodesBelow(nodes[i].children, Join(dir, nodes[i].segment)) :
            i \in DOMAIN nodes }

\* `/`+fragment over the non-group names of a directory, root to leaf
RECURSIVE FragmentsOf(_)
FragmentsOf(dir) ==
    IF dir = <<>> THEN <<>>
    ELSE (IF KindOfName(Head(dir)) = "group" THEN <<>>
          ELSE <<"/">> \o FragmentOfName(Head(dir))) \o FragmentsOf(Tail(dir))

PatternOfDirectory(dir) == IF FragmentsOf(dir) = <<>> THEN <<"/">> ELSE FragmentsOf(dir)

RECURSIVE NearestFile(_, _)
NearestFile(dir, base) ==
    IF findFileWithExtension(dir, base, DEFAULT_EXTENSIONS) # None
    THEN findFileWithExtension(dir, base, DEFAULT_EXTENSIONS)
    ELSE IF dir = <<>> THEN None
    ELSE NearestFile(SubSeq(dir, 1, Len(dir) - 1), base)

\* C3: the loadingPath, errorPath and notFoundPath of every route is the
\* file of the nearest directory, from the page's own directory up to the app
\* root, that declares one, and is absent only when none does.
C3_NearestWinsInheritance ==
    parsed # None =>
        \A i \in DOMAIN parsed[1].routes :
            LET route == parsed[1].routes[i]
            IN /\ route.loadingPath = NearestFile(route.pagePath[1], LOADING)
               /\ route.errorPath = NearestFile(route.pagePath[1], ERROR)
               /\ route.notFoundPath = NearestFile(route.pagePath[1], NOT_FOUND)

\* the layout files of the directories from the app root down to `dir`
RECURSIVE LayoutsDownTo(_)
LayoutsDownTo(dir) ==
    (IF dir = <<>> THEN <<>> ELSE LayoutsDownTo(SubSeq(dir, 1, Len(dir) - 1)))
    \o findFileWithExtension(dir, LAYOUT, DEFAULT_EXTENSIONS)

IsPrefix(s, t) == Len(s) <= Len(t) /\ SubSeq(t, 1, Len(s)) = s

\* C4: the layouts of every route are the root layout followed by the layout
\* files of the directories from the app root down to the page's directory,
\* groups and page-less directories counted; so the chain of a route in a
\* child directory is the chain of the route of its parent directory with
\* zero or one element appended.
C4_LayoutChain ==
    parsed # None =>
        /\ \A i \in DOMAIN parsed[1].routes :
               parsed[1].routes[i].layouts = LayoutsDownTo(parsed[1].routes[i].pagePath[1])
        /\ \A i, j \in DOMAIN parsed[1].routes :
               LET up == parsed[1].routes[i]
                   down == parsed[1].routes[j]
               IN down.pagePath[1] # <<>>
                  /\ up.pagePath[1] = SubSeq(down.pagePath[1], 1, Len(down.pagePath[1]) - 1)
                  => /\ IsPrefix(up.layouts, down.layouts)
                     /\ Len(down.layouts) <= Len(up.layouts) + 1

\* app/layout, app/(g)/layout and app/(g)/a/page: the page-less group's
\* layout follows the root layout
C4_Witness ==
    /\ parsed # None
    /\ \E i \in DOMAIN parsed[1].routes :
           /\ parsed[1].routes[i].pagePath[1] = << <<"(", "g", ")">>, <<"a">> >>
           /\ parsed[1].routes[i].layouts =
                  << FilePath(<<>>, LAYOUT \o TSX), FilePath(<< <<"(", "g", ")">> >>, LAYOUT \o TSX) >>

\* the page files of a node list, depth first, a node before its children
RECURSIVE PagesPreOrder(_)
PagesPreOrder(nodes) ==
    IF nodes = <<>> THEN <<>>
    ELSE Head(nodes).pagePath \o PagesPreOrder(Head(nodes).children)
         \o PagesPreOrder(Tail(nodes))

IsRetainedName(name) == name[1] # "_" /\ name \notin IGNORED_DIRECTORIES

IsRetainedDirectory(dir) ==
    dir \in DOMAIN ls /\ \A k \in DOMAIN dir : IsRetainedName(dir[k])

IsPageFile(f) == \E k \in DOMAIN DEFAULT_EXTENSIONS : f[2] = PAGE \o DEFAULT_EXTENSIONS[k]

\* C5: the routes are the root route (pattern `/`) when the app root has a
\* page, then one route per retained directory that has a page, in
\* depth-first pre-order of the sorted tree; no other route exists.
C5_RoutesInPreOrder ==
    parsed # None =>
        LET routes == parsed[1].routes
            rootPage == findFileWithExtension(<<>>, PAGE, DEFAULT_EXTENSIONS)
        IN /\ [i \in DOMAIN routes |-> routes[i].pagePath]
                  = rootPage \o PagesPreOrder(parsed[1].tree)
           /\ (rootPage # None => routes[1].pattern = <<"/">>)
           /\ {routes[i].pagePath : i \in DOMAIN routes}
                  = {f \in files : IsPageFile(f) /\ IsRetainedDirectory(f[1])}
           /\ \A i, j \in DOMAIN routes : routes[i].pagePath = routes[j].pagePath => i = j

\* app/page, app/a/a/page and app/[a]/page, read with [a] first: the root
\* route, then the page below the page-less a, then the dynamic sibling
C5_Witness ==
    /\ parsed # None
    /\ ls[<<>>] = << <<"[", "a", "]">>, <<"a">> >>
    /\ [i \in DOMAIN parsed[1].routes |-> parsed[1].routes[i].pattern]
           = << <<"/">>, <<"/", "a", "/", "a">>, <<"/", ":", "a">> >>

\* every sibling list of a tree
RECURSIVE SiblingLists(_)
SiblingLists(nodes) ==
    {nodes} \cup UNION {SiblingLists(nodes[i].children) : i \in DOMAIN nodes}

SortCategory(name) ==
    CASE KindOfName(name) \in {"static", "group"} -> 0
      [] KindOfName(name) = "dynamic" -> 1
      [] OTHER -> 2

\* C6: in every sibling list, whatever the order the directory was read in,
\* static names (groups included) precede dynamic names, which precede
\* catch-all and optional catch-all names.
C6_CategoryOrder ==
    parsed # None =>
        \A siblings \in SiblingLists(parsed[1].tree) :
            \A i, j \in DOMAIN siblings :
                i < j => SortCategory(siblings[i].segment) <= SortCategory(siblings[j].segment)

\* read as [...a], [b], (g), a and returned as (g), a, [b], [...a]
C6_Witness ==
    /\ parsed # None
    /\ ls[<<>>] = << <<"[", ".", ".", ".", "a", "]">>, <<"[", "b", "]">>, <<"(", "g", ")">>, <<"a">> >>
    /\ [i \in DOMAIN parsed[1].tree |-> parsed[1].tree[i].segment]
           = << <<"(", "g", ")">>, <<"a">>, <<"[", "b", "]">>, <<"[", ".", ".", ".", "a", "]">> >>

Sign(n) == IF n < 0 THEN -1 ELSE IF n > 0 THEN 1 ELSE 0

\* C7: the comparator is antisymmetric on every pair of siblings, and two
\* siblings of the same category end up in ascending locale order of their
\* names, whatever the order they were read in.
C7_TotalOrder ==
    parsed # None =>
        \A siblings \in SiblingLists(parsed[1].tree) :
            \A i, j \in DOMAIN siblings :
                i < j =>
                    /\ Sign(compareFn(siblings[i], siblings[j]))
                           = -Sign(compareFn(siblings[j], siblings[i]))
                    /\ (SortCategory(siblings[i].segment) = SortCategory(siblings[j].segment)
                           => localeCompare(siblings[i].segment, siblings[j].segment) < 0)

\* C8: no node stands for a file or for a directory that is, or lies below,
\* a directory whose name starts with `_` or is on the ignore list, and no
\* route has its page there.
C8_IgnoredDirectories ==
    parsed # None =>
        /\ \A dn \in NodesBelow(parsed[1].tree, <<>>) : IsRetainedDirectory(dn[1])
        /\ \A i \in DOMAIN parsed[1].routes :
               IsRetainedDirectory(parsed[1].routes[i].pagePath[1])

\* pages in app/_p, app/lib and app/a: only the last one is a route
C8_Witness ==
    /\ parsed # None
    /\ FilePath(<< <<"_", "p">> >>, PAGE \o TSX) \in files
    /\ FilePath(<< <<"l", "i", "b">> >>, PAGE \o TSX) \in files
    /\ [i \in DOMAIN parsed[1].tree |-> parsed[1].tree[i].segment] = << <<"a">> >>
    /\ [i \in DOMAIN parsed[1].routes |-> parsed[1].routes[i].pagePath]
           = << FilePath(<< <<"a">> >>, PAGE \o TSX) >>

\* a sequence without its repetitions, first occurrences kept
RECURSIVE FirstOccurrences(_)
FirstOccurrences(s) ==
    IF s = <<>> THEN <<>>
    ELSE LET front == FirstOccurrences(SubSeq(s, 1, Len(s) - 1))
         IN IF s[Len(s)] \in Range(front) THEN front ELSE Append(front, s[Len(s)])

\* the paths of one kind a route refers to, in the order it refers to them
ReferencesOfRoute(route, kind) ==
    CASE kind = "layout" -> route.layouts
      [] kind = "loading" -> route.loadingPath
      [] kind = "error" -> route.errorPath
      [] kind = "notFound" ->
            route.notFoundPath
            \o (IF route.layoutNotFoundMap = None THEN <<>>
                ELSE [k \in DOMAIN route.layoutNotFoundMap[1] |-> route.layoutNotFoundMap[1][k][2]])

RECURSIVE ReferencesOfRoutes(_, _)
ReferencesOfRoutes(routes, kind) ==
    IF routes = <<>> THEN <<>>
    ELSE ReferencesOfRoute(Head(routes), kind) \o ReferencesOfRoutes(Tail(routes), kind)

References(kind) ==
    ReferencesOfRoutes(parsed[1].routes, kind)
    \o (IF kind = "notFound" THEN options[1].rootNotFound ELSE <<>>)

MapOfKind(kind) ==
    CASE kind = "layout" -> imports[1].layoutMap
      [] kind = "loading" -> imports[1].loadingMap
      [] kind = "error" -> imports[1].errorMap
      [] kind = "notFound" -> imports[1].notFoundMap

\* C9: every distinct layout, loading, error and not-found path has exactly
\* one import statement and one identifier, the one of its first reference
\* (the k-th distinct path of a kind is numbered k - 1), however many routes
\* refer to it.
C9_ImportDeduplication ==
    imports # None =>
        \A kind \in {"layout", "loading", "error", "notFound"} :
            LET distinct == FirstOccurrences(References(kind))
                statements == imports[1].statements
            IN /\ DOMAIN MapOfKind(kind) = Range(distinct)
               /\ \A k \in DOMAIN distinct :
                      /\ MapOfKind(kind)[distinct[k]] = Prefix[kind] \o NumberToString(k - 1)
                      /\ Cardinality({n \in DOMAIN statements :
                             statements[n].source = normalizeImportPath(distinct[k], <<>>)}) = 1
                      /\ Cardinality({n \in DOMAIN statements :
                             statements[n].declares = <<MapOfKind(kind)[distinct[k]]>>}) = 1

\* two routes share Layout1, the second adds Layout2; the first route's
\* not-found file is also the root not-found file
C9_Witness ==
    /\ imports # None
    /\ Len(parsed[1].routes) = 2
    /\ parsed[1].routes[1].layouts = <<Layout1>>
    /\ parsed[1].routes[2].layouts = <<Layout1, Layout2>>
    /\ parsed[1].routes[1].notFoundPath = Some(NotFound1)
    /\ parsed[1].routes[2].layoutNotFoundMap = Some(<< <<Layout1, NotFound2>> >>)
    /\ options[1].rootNotFound = Some(NotFound1)
    /\ imports[1].layoutMap[Layout1] = Prefix.layout \o <<"0">>
    /\ imports[1].layoutMap[Layout2] = Prefix.layout \o <<"1">>
    /\ imports[1].notFoundMap[NotFound1] = Prefix.notFound \o <<"0">>
    /\ imports[1].notFoundMap[NotFound2] = Prefix.notFound \o <<"1">>

\* the identifiers the statements declare, in order
RECURSIVE Declared(_)
Declared(statements) ==
    IF statements = <<>> THEN <<>>
    ELSE Head(statements).declares \o Declared(Tail(statements))

\* C10: the identifiers of the page imports of one module are pairwise
\* distinct, and no identifier is declared twice in the module.
C10_DistinctIdentifiers ==
    imports # None =>
        LET declared == Declared(imports[1].statements)
        IN \A i, j \in DOMAIN declared : declared[i] = declared[j] => i = j

IsIdentifierStart(c) ==
    c \in Range(LowerCase) \cup Range(UpperCase) \cup {"_", "$"}

IsIdentifierName(s) ==
    /\ s # <<>>
    /\ IsIdentifierStart(s[1])
    /\ \A i \in DOMAIN s : IsIdentifierStart(s[i]) \/ s[i] \in Range(Digits)

\* C11: for every route of a scanned tree, `Page` + pathToIdentifier(pattern)
\* is the name its page import declares, and it is made of letters, digits,
\* `_` and `$` only.
C11_ValidIdentifiers ==
    imports # None =>
        \A i \in DOMAIN parsed[1].routes :
            LET route == parsed[1].routes[i]
                pageName == Prefix.page \o pathToIdentifier(route.pattern)
            IN /\ \E n \in DOMAIN imports[1].statements :
                      imports[1].statements[n].declares = <<pageName>>
               /\ IsIdentifierName(pageName)

\* C12: whatever load returns for the virtual module, in serve and in build
\* mode, with or without routes, app directory or resolved config, exports
\* AppRouter (named and default), router and routes.
C12_SameExportSurface ==
    (returned # None /\ returned[1].hook = "load" /\ returned[1].value # None) =>
        returned[1].value[1].exports
            = {EXPORT_APP_ROUTER, EXPORT_DEFAULT, EXPORT_ROUTER, EXPORT_ROUTES}

\* the routes of the list that have the same first layout as route i, up to
\* and including route i
SameGroupUpTo(routes, i) ==
    {j \in 1..i : Len(routes[j].layouts) > 0 /\ routes[j].layouts[1] = routes[i].layouts[1]}

\* the first layouts of the routes, in the order they are first met
FirstLayouts(routes) ==
    FirstOccurrences(ReferencesOfRoutes(
        [i \in DOMAIN routes |->
            [layouts |-> IF Len(routes[i].layouts) > 0 THEN <<routes[i].layouts[1]>> ELSE <<>>]],
        "layout"))

\* the configuration `depth` levels of first children below a configuration
RECURSIVE FirstChildBelow(_, _)
FirstChildBelow(config, depth) ==
    IF depth = 0 THEN config ELSE FirstChildBelow(config.children[1][1], depth - 1)

\* the place of the first layout of route i among the first layouts
GroupIndex(routes, i) ==
    CHOOSE k \in DOMAIN FirstLayouts(routes) : FirstLayouts(routes)[k] = routes[i].layouts[1]

\* the routes without layout up to and including route i
PlainUpTo(routes, i) == {j \in 1..i : Len(routes[j].layouts) = 0}

\* the configuration that carries the page of route i: below its group and
\* its wrappers, or at the top level after the groups
PageConfiguration(definitions, routes, i) ==
    IF Len(routes[i].layouts) > 0
    THEN FirstChildBelow(
             definitions[GroupIndex(routes, i)].children[1][Cardinality(SameGroupUpTo(routes, i))],
             Len(routes[i].layouts) - 1)
    ELSE definitions[Len(FirstLayouts(routes)) + Cardinality(PlainUpTo(routes, i))]

\* C13 as stated: the configuration of every route with pattern `/` carries
\* `index: true`; a tree with app/page only gives one configuration, with
\* `index: true`.
C13_IndexRoute ==
    (program # None /\ Len(parsed[1].routes) > 0) =>
        \A i \in DOMAIN parsed[1].routes :
            parsed[1].routes[i].pattern = <<"/">> =>
                PageConfiguration(program[1].routes, parsed[1].routes, i).index

\* C13 as amended: the configuration of a route with pattern `/` carries
\* `index: true` and no path when the route has a layout, and `path: '/'`
\* without index when it has none; a tree with app/page only gives one
\* route (pattern `/`, no layouts) and one configuration, with `path: '/'`.
C13_IndexRouteUnderLayout ==
    (program # None /\ Len(parsed[1].routes) > 0) =>
        /\ \A i \in DOMAIN parsed[1].routes :
               LET route == parsed[1].routes[i]
                   config == PageConfiguration(program[1].routes, parsed[1].routes, i)
               IN /\ config.element.component = imports[1].componentMap[route.pagePath]
                  /\ route.pattern = <<"/">> =>
                        IF Len(route.layouts) > 0
                        THEN config.index /\ config.path = None
                        ELSE ~config.index /\ config.path = Some(<<"/">>)
        /\ files = {FilePath(<<>>, PAGE \o TSX)} =>
               /\ Len(parsed[1].routes) = 1
               /\ parsed[1].routes[1].pattern = <<"/">>
               /\ parsed[1].routes[1].layouts = <<>>
               /\ Len(program[1].routes) = 1
               /\ program[1].routes[1].path = Some(<<"/">>)

\* app/page only, parsed and generated
C13_Witness ==
    /\ program # None
    /\ files = {FilePath(<<>>, PAGE \o TSX)}
    /\ Len(program[1].routes) = 1
    /\ ~program[1].routes[1].index

\* the places of the routes whose first layout is `layout`, in route order
GroupMembers(routes, layout) ==
    SelectSeq([i \in DOMAIN routes |-> i],
              LAMBDA i : Len(routes[i].layouts) > 0 /\ routes[i].layouts[1] = layout)

PlainMembers(routes) ==
    SelectSeq([i \in DOMAIN routes |-> i], LAMBDA i : Len(routes[i].layouts) = 0)

\* C14: the top-level configurations are one per distinct first layout, with
\* that layout as element and one child per route of that first layout, in
\* route order, followed by one configuration per route without layout,
\* with the route's pattern as path; no other top-level configuration has a
\* layout as element.
C14_GroupedByRootLayout ==
    (program # None /\ Len(parsed[1].routes) > 0) =>
        LET routes == parsed[1].routes
            definitions == program[1].routes
            firstLayouts == FirstLayouts(routes)
            plain == PlainMembers(routes)
        IN /\ Len(definitions) = Len(firstLayouts) + Len(plain)
           /\ \A k \in DOMAIN firstLayouts :
                  LET members == GroupMembers(routes, firstLayouts[k])
                  IN /\ definitions[k].element.component = imports[1].layoutMap[firstLayouts[k]]
                     /\ definitions[k].children # None
                     /\ Len(definitions[k].children[1]) = Len(members)
                     /\ \A m \in DOMAIN members :
                            FirstChildBelow(definitions[k].children[1][m],
                                            Len(routes[members[m]].layouts) - 1).element.component
                                = imports[1].componentMap[routes[members[m]].pagePath]
                     /\ \A n \in DOMAIN definitions :
                            definitions[n].element.component = definitions[k].element.component
                                => n = k
           /\ \A m \in DOMAIN plain :
                  LET config == definitions[Len(firstLayouts) + m]
                  IN /\ config.path = Some(routes[plain[m]].pattern)
                     /\ config.children = None
                     /\ config.element.component = imports[1].componentMap[routes[plain[m]].pagePath]

\* app/layout, app/page and app/a/page: one top-level configuration with
\* two children
C14_Witness ==
    /\ program # None
    /\ files = {FilePath(<<>>, LAYOUT \o TSX), FilePath(<<>>, PAGE \o TSX),
                FilePath(<< <<"a">> >>, PAGE \o TSX)}
    /\ Len(program[1].routes) = 1
    /\ Len(program[1].routes[1].children[1]) = 2

\* the hooks ran far enough for the handler in use to scan the project
ConfigIsResolved ==
    \/ context.currentModule = Some("server") /\ serverCtx.config # None
    \/ context.currentModule = Some("build") /\ buildCtx.config # None

\* the step is load(id)
LoadStep(id) == returned' # None /\ returned'[1].hook = "load" /\ Load(id)

\* the step is resolveId(id)
ResolveIdStep(id) == returned' # None /\ returned'[1].hook = "resolveId" /\ ResolveId(id)

\* C15: when the app root directory holds a not-found file, the module
\* load returns for the virtual module has, as the last entry of its
\* top-level route array, a `path: '*'` configuration without children.
C15_RootNotFoundRoute ==
    [][ ( /\ LoadStep(RESOLVED_VIRTUAL_MODULE_ID)
          /\ ConfigIsResolved
          /\ findFileWithExtension(AppDirOf(context.options, <<>>), NOT_FOUND,
                                   ExtensionsOf(context.options)) # None )
        => LET definitions == returned'[1].value[1].routes
           IN /\ Len(definitions) > 0
              /\ definitions[Len(definitions)].path = Some(<<"*">>)
              /\ definitions[Len(definitions)].children = None ]_vars

\* the configuration emitted for layout k of route i
LayoutConfiguration(definitions, routes, i, k) ==
    LET group == definitions[GroupIndex(routes, i)]
    IN IF k = 1 THEN group
       ELSE FirstChildBelow(group.children[1][Cardinality(SameGroupUpTo(routes, i))], k - 2)

\* C16: when a directory below the app root holds a layout and a not-found
\* file, the configuration emitted for that layout, for every route under
\* it, has a `path: '*'` child next to the page configurations.
C16_LayoutNotFoundRoute ==
    (program # None /\ Len(parsed[1].routes) > 0) =>
        \A i \in DOMAIN parsed[1].routes :
            \A k \in DOMAIN parsed[1].routes[i].layouts :
                LET layout == parsed[1].routes[i].layouts[k]
                    config == LayoutConfiguration(program[1].routes, parsed[1].routes, i, k)
                IN ( /\ layout[1] # <<>>
                     /\ findFileWithExtension(layout[1], NOT_FOUND, DEFAULT_EXTENSIONS) # None )
                   => \E n \in DOMAIN config.children[1] :
                          config.children[1][n].path = Some(<<"*">>)

\* the directory and the extensions the options given to the plugin name
GivenAppDir == AppDirOf(context.options, <<>>)
GivenExtensions == ExtensionsOf(context.options)

\* C17: the module generated in serve mode (at load) and in build mode (at
\* configResolved) is the one of the routes of the appDir given to the
\* plugin, read with the extensions given to it, and of <root>/src/app with
\* the default extensions when none is given.
C17_ConfiguredAppDir ==
    [][ /\ ( /\ LoadStep(RESOLVED_VIRTUAL_MODULE_ID)
             /\ context.currentModule = Some("server")
             /\ serverCtx.config # None
             /\ existsSyncDir(GivenAppDir) )
           => /\ serverCtx'.appDir = Some(GivenAppDir)
              /\ returned'[1].value
                     = Some(generateDevRoutesCode(
                           parseAppRouter(GivenAppDir, GivenExtensions).routes, <<>>, TRUE, None))
        /\ ( /\ ConfigResolved
             /\ context.currentModule = Some("build")
             /\ existsSyncDir(GivenAppDir) )
           => buildCtx'.generatedCode
                  = Some(generateBuildRoutesCode(
                        parseAppRouter(GivenAppDir, GivenExtensions).routes, <<>>, FALSE, None))
      ]_vars

\* C18: parseAppRouter on a directory that does not exist returns no node
\* and no route; on a directory without a page file of its own it returns
\* no root page and no route whose page is in that directory.
C18_AbsenceIsNoError ==
    (parsed # None /\ options # None /\ phase = "parsed") =>
        LET appDir == options[1].appDir
        IN /\ appDir \notin DOMAIN ls =>
                  parsed[1] = [routes |-> <<>>, tree |-> <<>>,
                               rootLayout |-> None, rootPage |-> None]
           /\ (\A k \in DOMAIN DEFAULT_EXTENSIONS :
                   FilePath(appDir, PAGE \o DEFAULT_EXTENSIONS[k]) \notin files) =>
                  /\ parsed[1].rootPage = None
                  /\ \A i \in DOMAIN parsed[1].routes :
                         parsed[1].routes[i].pagePath[1] # appDir

\* parseAppRouter was called on a directory that is not in the tree
C18_Witness ==
    /\ parsed # None /\ options # None /\ phase = "parsed"
    /\ options[1].appDir \notin DOMAIN ls
    /\ parsed[1].routes = <<>>

\* C19: once config has picked the serve or the build module, resolveId
\* returns the resolved id for the virtual id and nothing for any other id,
\* and load returns a text for the resolved id and nothing for any other id.
C19_VirtualModuleIds ==
    [][ \A id \in Ids :
            /\ (ResolveIdStep(id) /\ context.currentModule # None)
               => returned'[1].value = IF id = VIRTUAL_MODULE_ID
                                       THEN Some(RESOLVED_VIRTUAL_MODULE_ID) ELSE None
            /\ (LoadStep(id) /\ context.currentModule # None)
               => (returned'[1].value # None <=> id = RESOLVED_VIRTUAL_MODULE_ID)
      ]_vars

\* in build mode resolveId mapped the virtual id to the resolved id
C19_Witness ==
    /\ context.currentModule = Some("build")
    /\ returned = Some([hook |-> "resolveId", id |-> VIRTUAL_MODULE_ID,
                        value |-> Some(RESOLVED_VIRTUAL_MODULE_ID)])

\* the text the handler in use keeps
CachedText ==
    IF context.currentModule = Some("server") THEN serverCtx.cachedCode
    ELSE buildCtx.generatedCode

\* the handler in use has what it needs to scan: a resolved config and an
\* app directory
CanScan ==
    /\ ConfigIsResolved
    /\ existsSyncDir(DefaultAppDir(<<>>))

\* C20: a load of the virtual module returns the kept text and changes
\* nothing while a text is kept; without a kept text it generates, and a
\* generation that cannot scan (no resolved config, no app directory)
\* returns a fallback module and keeps no text.
C20_LoadUsesCache ==
    [][ (LoadStep(RESOLVED_VIRTUAL_MODULE_ID) /\ context.currentModule # None) =>
            /\ CachedText # None =>
                   /\ returned'[1].value = CachedText
                   /\ serverCtx' = serverCtx
                   /\ buildCtx' = buildCtx
            /\ (CachedText = None /\ ~CanScan) =>
                   /\ serverCtx'.cachedCode = None
                   /\ buildCtx'.generatedCode = None
      ]_vars

\* the basename is a convention name followed by one of the extensions
IsConventionFileName(name, extensions) ==
    \E base \in {PAGE, LAYOUT, LOADING, ERROR, NOT_FOUND} :
        \E k \in DOMAIN extensions : name = base \o extensions[k]

\* the file is a route-convention file beneath the app directory
IsRouteConventionFile(file) ==
    /\ IsPrefix(GivenAppDir, file[1])
    /\ IsConventionFileName(file[2], GivenExtensions)

\* the step is handleHotUpdate(file)
HotUpdateStep(file) ==
    /\ (returned = None) = (returned' = None)
    /\ returned # None => returned'[1].hook = returned[1].hook
    /\ HandleHotUpdate(file)

\* C21: in serve mode handleHotUpdate(file) clears the cached text,
\* invalidates the virtual module (when the module graph has it) and sends
\* one full-reload if the file is a route-convention file beneath the app
\* directory, and leaves the cache, the module graph and the client as they
\* were for every other file; also before the first load.
C21_ChangeNotification ==
    [][ \A file \in files :
            (HotUpdateStep(file) /\ serverCtx.config # None) =>
                IF IsRouteConventionFile(file)
                THEN /\ serverCtx'.cachedCode = None
                     /\ RESOLVED_VIRTUAL_MODULE_ID \in server.moduleGraph
                            => RESOLVED_VIRTUAL_MODULE_ID \in server'.invalidated
                     /\ server'.ws = Append(server.ws, [type |-> "full-reload", path |-> "*"])
                ELSE UNCHANGED <<serverCtx, server>>
      ]_vars

\* C22: in serve mode, once the config is resolved, the text load returns
\* for the virtual module is the one generated from the routes of the app
\* directory as the tree is when load is called, whatever tree changes,
\* change notifications and loads came before.
C22_LoadServesCurrentTree ==
    [][ ( /\ LoadStep(RESOLVED_VIRTUAL_MODULE_ID)
          /\ context.currentModule = Some("server")
          /\ serverCtx.config # None )
        => returned'[1].value
               = Some(generateDevRoutesCode(
                     parseAppRouter(AppDirOf(serverCtx.options, serverCtx.config[1].root),
                                    ExtensionsOf(serverCtx.options)).routes,
                     serverCtx.config[1].root, TRUE, None)) ]_vars

\* load returned a module with routes after a change notification had
\* invalidated the module of an earlier load
C22_Witness ==
    /\ context.currentModule = Some("server")
    /\ server.ws # <<>>
    /\ server.invalidated = {}
    /\ returned # None
    /\ returned[1].hook = "load"
    /\ returned[1].value # None
    /\ Len(returned[1].value[1].routes) > 0
    /\ serverCtx.cachedCode = returned[1].value

\* the identifier bound to the error component of a route
ErrorNameOf(route) == MapGet(imports[1].errorMap, route.errorPath[1])

\* C23: for a route with an error component, the page configuration and
\* the configuration of each of its layouts carry an errorElement that
\* renders that component.
C23_ErrorElementEverywhere ==
    (program # None /\ Len(parsed[1].routes) > 0) =>
        \A i \in DOMAIN parsed[1].routes :
            LET route == parsed[1].routes[i]
            IN route.errorPath # None =>
                   /\ PageConfiguration(program[1].routes, parsed[1].routes, i).errorElement
                          = ErrorNameOf(route)
                   /\ \A k \in DOMAIN route.layouts :
                          LayoutConfiguration(program[1].routes, parsed[1].routes, i, k).errorElement
                              = ErrorNameOf(route)

\* the identifier bound to the loading component of a route, if any
LoadingNameOf(route) ==
    IF route.loadingPath = None THEN None
    ELSE MapGet(imports[1].loadingMap, route.loadingPath[1])

\* a component inside a Suspense boundary with the given fallback (None is
\* the default `Loading...` placeholder)
InSuspense(element, componentName, fallback) ==
    /\ element.component = componentName
    /\ element.suspense
    /\ element.fallback = fallback

\* a component rendered without a Suspense boundary
Bare(element, componentName) ==
    /\ element.component = componentName
    /\ ~element.suspense

\* the first route of the group of route i
FirstOfGroup(routes, i) == routes[GroupMembers(routes, routes[i].layouts[1])[1]]

\* C24 as stated: in lazy and in static generation, the page element and
\* every layout element of every route is inside a Suspense boundary whose
\* fallback is the loading component of the route, or the default
\* placeholder when it has none.
C24_SuspenseEverywhere ==
    (program # None /\ Len(parsed[1].routes) > 0) =>
        \A i \in DOMAIN parsed[1].routes :
            LET route == parsed[1].routes[i]
            IN /\ InSuspense(PageConfiguration(program[1].routes, parsed[1].routes, i).element,
                             imports[1].componentMap[route.pagePath], LoadingNameOf(route))
               /\ \A k \in DOMAIN route.layouts :
                      InSuspense(
                          LayoutConfiguration(program[1].routes, parsed[1].routes, i, k).element,
                          imports[1].layoutMap[route.layouts[k]], LoadingNameOf(route))

\* C24 as amended: in lazy generation the page element and the element of
\* every inner layout of a route are inside a Suspense boundary whose
\* fallback is the loading component of the route (the default placeholder
\* when it has none), and the element of the first layout is inside one
\* whose fallback is the loading component of the first route of its group;
\* in static generation every page and layout element is rendered without
\* a Suspense boundary.
C24_SuspenseWhenLazy ==
    (program # None /\ Len(parsed[1].routes) > 0) =>
        \A i \in DOMAIN parsed[1].routes :
            LET route == parsed[1].routes[i]
                page == PageConfiguration(program[1].routes, parsed[1].routes, i).element
                pageName == imports[1].componentMap[route.pagePath]
            IN /\ IF options[1].lazy
                  THEN InSuspense(page, pageName, LoadingNameOf(route))
                  ELSE Bare(page, pageName)
               /\ \A k \in DOMAIN route.layouts :
                      LET layout ==
                              LayoutConfiguration(program[1].routes, parsed[1].routes, i, k).element
                          layoutName == imports[1].layoutMap[route.layouts[k]]
                          owner == IF k = 1 THEN FirstOfGroup(parsed[1].routes, i) ELSE route
                      IN IF options[1].lazy
                         THEN InSuspense(layout, layoutName, LoadingNameOf(owner))
                         ELSE Bare(layout, layoutName)

\* a statically generated module for a route with two layouts and a loading
\* component
C24_Witness ==
    /\ program # None
    /\ ~options[1].lazy
    /\ \E i \in DOMAIN parsed[1].routes :
           /\ Len(parsed[1].routes[i].layouts) = 2
           /\ parsed[1].routes[i].loadingPath # None
           /\ ~PageConfiguration(program[1].routes, parsed[1].routes, i).element.suspense

\* every import of a component in the text is of the given style
ComponentImportsAre(text, style) ==
    \A k \in DOMAIN text.statements : text.statements[k].kind \in {"named", style}

\* the routes the handlers scan
ScannedRoutes == parseAppRouter(DefaultAppDir(<<>>), DEFAULT_EXTENSIONS).routes

C26_LayoutNesting ==
    (program # None /\ Len(parsed[1].routes) > 0) =>
        \A i \in DOMAIN parsed[1].routes :
            LET route == parsed[1].routes[i]
                page == PageConfiguration(program[1].routes, parsed[1].routes, i)
            IN Len(route.layouts) >= 1 =>
                   /\ \A j \in DOMAIN route.layouts :
                          LET wrapper == LayoutConfiguration(program[1].routes,
                                                             parsed[1].routes, i, j)
                          IN /\ wrapper.element.component = imports[1].layoutMap[route.layouts[j]]
                             /\ wrapper.children # None
                             /\ j >= 2 => (wrapper.path = None /\ ~wrapper.index)
                   /\ page.element.component = imports[1].componentMap[route.pagePath]
                   /\ page.children = None
                   /\ IF route.pattern = <<"/">>
                      THEN page.index /\ page.path = None
                      ELSE ~page.index /\ page.path = Some(DropLeadingSlash(route.pattern))

\* a module was generated for a route below three layouts
C26_Witness ==
    /\ program # None
    /\ \E i \in DOMAIN parsed[1].routes :
           /\ Len(parsed[1].routes[i].layouts) = 3
           /\ PageConfiguration(program[1].routes, parsed[1].routes, i).children = None

\* the RouteNodes of the parsed tree
RouteNodes == {dn[2] : dn \in NodesBelow(parsed[1].tree, <<>>)}

\* the flags of a node that are true
FlagsOf(node) ==
    {flag \in {"isDynamic", "isCatchAll", "isOptionalCatchAll", "isGroup"} :
        CASE flag = "isDynamic" -> node.isDynamic
          [] flag = "isCatchAll" -> node.isCatchAll
          [] flag = "isOptionalCatchAll" -> node.isOptionalCatchAll
          [] OTHER -> node.isGroup}

\* C27 as stated: at most one of the four flags of a RouteNode is true, and
\* paramName is defined exactly when isDynamic, isCatchAll or
\* isOptionalCatchAll is.
C27_FlagsExclusive ==
    parsed # None =>
        \A node \in RouteNodes :
            /\ Cardinality(FlagsOf(node)) <= 1
            /\ node.paramName # None
                   <=> (node.isDynamic \/ node.isCatchAll \/ node.isOptionalCatchAll)

\* C27 as amended: a group has no other flag; a catch-all and an optional
\* catch-all are never both true and each is also dynamic; a node has no
\* other combination of flags; paramName is defined exactly when isDynamic
\* is true.
C27_FlagsOfKinds ==
    parsed # None =>
        \A node \in RouteNodes :
            /\ FlagsOf(node) \in { {}, {"isGroup"}, {"isDynamic"},
                                   {"isDynamic", "isCatchAll"},
                                   {"isDynamic", "isOptionalCatchAll"} }
            /\ node.paramName # None <=> node.isDynamic

\* a tree with a group, a dynamic, a catch-all and an optional catch-all
\* directory was parsed
C27_Witness ==
    /\ parsed # None
    /\ \E node \in RouteNodes : FlagsOf(node) = {"isDynamic", "isCatchAll"}
    /\ \E node \in RouteNodes : FlagsOf(node) = {"isDynamic", "isOptionalCatchAll"}
    /\ \E node \in RouteNodes : FlagsOf(node) = {"isGroup"}
    /\ \E node \in RouteNodes : FlagsOf(node) = {"isDynamic"}

\* C28: the patterns of the routes parseAppRouter returns for a tree are
\* pairwise distinct.
C28_DistinctPatterns ==
    parsed # None =>
        \A i, j \in DOMAIN parsed[1].routes :
            i # j => parsed[1].routes[i].pattern # parsed[1].routes[j].pattern

\* C29: in the pattern of every resolved route the character `*` is the
\* last one: nothing follows the fragment of a catch-all or optional
\* catch-all directory.
C29_WildcardLast ==
    parsed # None =>
        \A i \in DOMAIN parsed[1].routes :
            LET pattern == parsed[1].routes[i].pattern
            IN \A k \in DOMAIN pattern : pattern[k] = "*" => k = Len(pattern)

\* the identifier bound to a file in a map of the collected imports
NameOfFile(map, file) == IF file = None THEN None ELSE MapGet(map, file[1])

\* C30: for every route with a layout, the configuration of its first
\* layout has as Suspense fallback (in lazy generation) the loading file and
\* as errorElement the error file of the directory that holds that layout,
\* and neither when that directory has none.
C30_RootContextOfOwner ==
    (program # None /\ Len(parsed[1].routes) > 0) =>
        \A i \in DOMAIN parsed[1].routes :
            LET route == parsed[1].routes[i]
            IN Len(route.layouts) >= 1 =>
                   LET owner == route.layouts[1][1]
                       config == LayoutConfiguration(program[1].routes, parsed[1].routes, i, 1)
                       loadingFile == findFileWithExtension(owner, LOADING, DEFAULT_EXTENSIONS)
                       errorFile == findFileWithExtension(owner, ERROR, DEFAULT_EXTENSIONS)
                   IN /\ (loadingFile = None) = (NameOfFile(imports[1].loadingMap, loadingFile) = None)
                      /\ (errorFile = None) = (NameOfFile(imports[1].errorMap, errorFile) = None)
                      /\ options[1].lazy =>
                             config.element.fallback
                                 = NameOfFile(imports[1].loadingMap, loadingFile)
                      /\ config.errorElement = NameOfFile(imports[1].errorMap, errorFile)

====
